---- MODULE Spec2Model ----
(***************************************************************************)
(* State-machine model of the Dev-Vault virtual filesystem of the EnGenAI  *)
(* VS Code extension (src/src/fs/DevVaultFS.ts) together with the parts of *)
(* the API client it calls (src/src/types/protocol.ts).                    *)
(*                                                                         *)
(* Every async method is split at its await: the synchronous prefix is one *)
(* action (named like the method), the remote vault handling the request   *)
(* is one action (ServerHandle), and the continuation after the await is   *)
(* one action (<method>_resume).  Calls in flight live in `calls`.         *)
(*                                                                         *)
(* Paths are sequences of segments: the string "/vault/a/b.txt" is         *)
(* <<"vault","a","b.txt">>, "/" is <<"">> and "" is <<>>.                  *)
(***************************************************************************)
EXTENDS Integers, Sequences, FiniteSets, TLC

\* ------------------------------------------------------------------ bounds
MaxVer    == 3     \* versions the remote vault goes through (it starts at 1)
MaxEvents == 2     \* change events scheduled in one behaviour
MaxTicks  == 2     \* clock advances
MaxMounts == 2     \* mountProject calls
MaxFineTicks == 3  \* clock advances of a few milliseconds
MaxPathLen == 3    \* characters of a vault path after its leading slash
MaxFrames == 3     \* clock advances of half a batch interval
MaxCalls == 4      \* calls and timeouts of the token batcher

\* ------------------------------------------------------- program constants
STAT_TTL == 30000
DIR_TTL  == 30000
DEBOUNCE_MS == 5
BATCH_INTERVAL == 16

\* The clock advances in steps of half a TTL, so that an entry is seen both
\* inside its window and at its expiry time.
TickMs == STAT_TTL \div 2

CallIds  == {1, 2}
Projects == {"p1"}

\* ------------------------------------------------------------ Map helpers
EmptyMap == [k \in {} |-> 0]
MapHas(m, k) == k \in DOMAIN m
MapSet(m, k, v) == [x \in (DOMAIN m) \cup {k} |-> IF x = k THEN v ELSE m[x]]
MapDelete(m, k) == [x \in (DOMAIN m) \ {k} |-> m[x]]

\* ------------------------------------------------------------------- URIs
\* vscode.Uri.parse(`engenai://project-${projectId}/vault${path}`)
\* data.path of a payload that has no path: the template prints "undefined"
UndefinedPath == <<"${undefined}">>

VaultUri(projectId, path) ==
  [authority |-> <<"project-", projectId>>,
   path |-> IF path = UndefinedPath THEN <<"vaultundefined">>
            ELSE <<"vault">> \o path]

\* String.prototype.replace(pattern, "") on a token sequence: the first
\* occurrence of tok is removed.
RECURSIVE RemoveFirst(_, _)
RemoveFirst(s, tok) ==
  IF s = <<>> THEN <<>>
  ELSE IF Head(s) = tok THEN Tail(s)
  ELSE <<Head(s)>> \o RemoveFirst(Tail(s), tok)

\* uri.path.replace(/^\/vault/, "") || "/"
StripVault(path) ==
  LET cut == IF path # <<>> /\ Head(path) = "vault" THEN Tail(path) ELSE path
  IN  IF cut = <<>> THEN <<"">> ELSE cut

parseUri(uri) ==
  [projectId |-> RemoveFirst(uri.authority, "project-"),
   vaultPath |-> StripVault(uri.path)]

\* uri.path.substring(0, uri.path.lastIndexOf("/")) || "/"
ParentPath(path) ==
  LET cut == IF path = <<>> THEN <<>> ELSE SubSeq(path, 1, Len(path) - 1)
  IN  IF cut = <<>> THEN <<"">> ELSE cut

ParentUri(uri) == [uri EXCEPT !.path = ParentPath(uri.path)]

\* The vault of the model: directory /a with the files /a/b.txt and /a/c.txt.
DirA  == <<"a">>
FileB == <<"a", "b.txt">>
FileC == <<"a", "c.txt">>
RootPath == <<"">>
FilePaths == {FileB, FileC}
DirPaths  == {RootPath, DirA}
VaultPaths == DirPaths \cup FilePaths

RootUri(p) == VaultUri(p, <<>>)
FileUris == {VaultUri(p, f) : p \in Projects, f \in FilePaths}
DirUris  == {RootUri(p) : p \in Projects} \cup {VaultUri(p, DirA) : p \in Projects}
Uris     == FileUris \cup DirUris

\* ----------------------------------------------------------------- values
NoTag    == [t |-> "undefined", v |-> 0]     \* no If-Match header
Wildcard == [t |-> "*", v |-> 0]             \* If-Match: *
ETag(v)  == [t |-> "etag", v |-> v]

SizeOf(c) == CASE c = "x" -> 1 [] c = "yy" -> 2 [] OTHER -> 0

NoStat == [type |-> "Unknown", mtime |-> 0, size |-> 0]

NoResp == [status |-> "none", etag |-> NoTag, content |-> "",
           is_directory |-> FALSE, size_bytes |-> 0, modified_at_ms |-> 0,
           entries |-> {}]

NoUri == [authority |-> <<>>, path |-> <<>>]

\* A call of a façade method: its arguments, where it stands (pc), the answer
\* it is resuming with (resp), what it returned (result, ret, fromCache) and
\* what it did so far: the requests it sent (sends), the statuses it got
\* (statuses), the prompts it opened, the choice made, the events it scheduled.
IdleCall == [op |-> "none", pc |-> "idle", uri |-> NoUri, content |-> "",
             create |-> FALSE, resp |-> NoResp,
             result |-> "pending", ret |-> NoStat, fromCache |-> FALSE,
             sends |-> <<>>, statuses |-> <<>>, prompts |-> 0, choice |-> "",
             evts |-> <<>>, newUri |-> NoUri, overwrite |-> FALSE,
             epoch |-> 0]

NoReq == [ifMatch |-> NoTag, content |-> ""]

\* no notification is in flight on the stream
NoMessages == <<>>

VARIABLES
  now,              \* Date.now()
  statCache,        \* Map key -> [stat, expires]
  dirCache,         \* Map key -> [entries, expires]
  fileCache,        \* Map key -> [content, mtime]
  etagCache,        \* Map key -> etag
  bufferedEvents,   \* _bufferedEvents
  timerPending,     \* the timeout behind _fireSoonHandle has not fired yet
  delivered,        \* batches fired on _emitter, oldest first
  timerDue,         \* when the timeout behind _fireSoonHandle is due
  disposed,         \* _emitter.dispose() was called
  currentProjectId, \* "" for undefined
  workspaceFolders, \* projects of the engenai:// workspace folders, in order
  sseController,    \* project whose stream SSEClient.controller is open to, "" for null
  sseState,         \* fetchEventSource: "idle", "open", or "waiting" to reconnect
  inflight,         \* notifications received on the stream, not yet handled
  clientToken,      \* EnGenAIClient.isAuthenticated
  calls,            \* the façade calls in flight
  remote,           \* the remote vault: path -> [kind, ver, content]
  remoteVer,        \* the remote's version stamp
  mounts,           \* number of mountProject calls so far
  \* history, written by no method and read by none
  last,             \* the call that returned most recently, as its caller saw it
  lastRW,           \* key -> [etag, live]: etag of the latest successful read or
                    \* write of the key; live until the token is dropped or moved
  firstStat,        \* key -> [val, at]: first stat fetched in the current TTL
                    \* window of the key, dropped when the key is invalidated
  firstDir,         \* the same for directory listings
  schedLog,         \* every event given to _fireSoon, with the time, in order
  streams,          \* projects of the fetchEventSource calls not aborted, oldest first
  \* TokenBatcher
  buffers,          \* Map agentId -> content, as [agentId, content] in insertion
                    \* order; a content string is the sequence of its tokens
  timer,            \* the batch timeout is set
  timerAt,          \* when the batch timeout is due
  posted,           \* messages given to postMessage, oldest first
  added,            \* history: the addToken, endStream and dispose calls and the
                    \* flushes of the batcher, in order
  \* the URI functions, applied to one input
  uriArg,           \* [projectId, vaultPath], both character sequences
  uriRes,           \* what parseUri returns for the URI built from uriArg
  \* the device flow
  poll,             \* the locals of the pollForToken call: pc, pollInterval,
                    \* deadline, the cancellation token; history: the last
                    \* answer of the server and what the call returned
  \* AuthManager
  authState,        \* _state
  secrets,          \* SecretStorage: is engenai.pat stored, is a session stored
  healthCheckInterval,  \* the health check interval is set
  authCalls         \* where each async method of AuthManager stands

vars == <<now, statCache, dirCache, fileCache, etagCache, bufferedEvents,
          timerPending, delivered, currentProjectId, workspaceFolders,
          sseController, clientToken, calls, remote, remoteVer, mounts,
          last, lastRW, firstStat, firstDir,
          timerDue, disposed, sseState, inflight, schedLog, streams,
          buffers, timer, timerAt, posted, added, uriArg, uriRes, poll,
          authState, secrets, healthCheckInterval, authCalls>>

cacheVars == <<statCache, dirCache, fileCache, etagCache, lastRW, firstStat, firstDir>>
eventVars == <<bufferedEvents, timerPending, delivered, timerDue, disposed, schedLog>>
streamVars == <<sseController, sseState, inflight, streams>>
mountVars == <<currentProjectId, workspaceFolders, streamVars, clientToken, mounts>>
remoteVars == <<remote, remoteVer>>
batcherVars == <<buffers, timer, timerAt, posted, added>>
uriVars == <<uriArg, uriRes>>
authVars == <<authState, secrets, healthCheckInterval, authCalls>>
signInVars == <<poll, authVars>>
asideVars == <<batcherVars, uriVars, signInVars>>

InitFs ==
  /\ now = 0
  /\ statCache = EmptyMap
  /\ dirCache = EmptyMap
  /\ fileCache = EmptyMap
  /\ etagCache = EmptyMap
  /\ bufferedEvents = <<>>
  /\ timerPending = FALSE
  /\ delivered = <<>>
  /\ timerDue = 0
  /\ disposed = FALSE
  /\ schedLog = <<>>
  /\ currentProjectId = ""
  /\ workspaceFolders = <<>>
  /\ sseController = ""
  /\ sseState = "idle"
  /\ inflight = NoMessages
  /\ clientToken = FALSE
  /\ calls = [c \in CallIds |-> IdleCall]
  /\ remote = [p \in VaultPaths |->
                 IF p \in DirPaths THEN [kind |-> "dir", ver |-> 0, content |-> ""]
                 ELSE IF p = FileB THEN [kind |-> "file", ver |-> 1, content |-> "x"]
                 ELSE [kind |-> "absent", ver |-> 0, content |-> ""]]
  /\ remoteVer = 1
  /\ mounts = 0
  /\ last = IdleCall
  /\ lastRW = EmptyMap
  /\ firstStat = EmptyMap
  /\ firstDir = EmptyMap
  /\ streams = <<>>

\* new TokenBatcher(postMessage)
InitBatcher ==
  /\ buffers = <<>>
  /\ timer = FALSE
  /\ timerAt = 0
  /\ posted = <<>>
  /\ added = <<>>

NoArg == [projectId |-> <<>>, vaultPath |-> <<>>]

NoPoll == [pc |-> "idle", pollInterval |-> 0, deadline |-> 0,
           isCancellationRequested |-> FALSE, answer |-> "none",
           result |-> "none"]

NoAuthCalls == [removeSession |-> "idle", tryRestore |-> "idle",
                storeDeviceFlowToken |-> "idle", handleTokenChange |-> "idle",
                healthCheck |-> "idle"]

InitAuth ==
  /\ authState = "disconnected"
  /\ secrets = [token |-> FALSE, sessions |-> FALSE]
  /\ healthCheckInterval = FALSE
  /\ authCalls = NoAuthCalls

InitSignIn == poll = NoPoll /\ InitAuth

Init ==
  /\ InitFs
  /\ InitBatcher
  /\ uriArg = NoArg
  /\ uriRes = NoArg
  /\ InitSignIn

\* ------------------------------------------------------- cache management
\* invalidateCache(uri), one operator per cache it touches
invalidateStat(sc, uri) == MapDelete(sc, uri)
\* mutation: the content entry is left in place
invalidateFile_keep(fc, uri) == fc
invalidateFile(fc, uri) == MapDelete(fc, uri)
\* mutation: the listing of the path itself is dropped, not its parent's
invalidateDir_self(dc, uri) == MapDelete(dc, uri)
invalidateDir(dc, uri)  == MapDelete(dc, ParentUri(uri))

invalidateCache(uri) ==
  /\ statCache' = invalidateStat(statCache, uri)
  /\ fileCache' = invalidateFile(fileCache, uri)
  /\ dirCache'  = invalidateDir(dirCache, uri)
  /\ firstStat' = MapDelete(firstStat, uri)
  /\ firstDir'  = MapDelete(firstDir, ParentUri(uri))

\* history: the first value fetched for key in the TTL window that is open at t
FirstPut(first, key, val, t, ttl) ==
  IF MapHas(first, key) /\ t < first[key].at + ttl
  THEN first
  ELSE MapSet(first, key, [val |-> val, at |-> t])

\* history: a read or write of key has completed with this etag
TokenSet(key, etag) == lastRW' = MapSet(lastRW, key, [etag |-> etag, live |-> TRUE])
TokenDropped(key) ==
  lastRW' = IF MapHas(lastRW, key)
            THEN [lastRW EXCEPT ![key].live = FALSE] ELSE lastRW

\* mutation: the new events replace the buffer
fireSoonBuffer_replace(buf, events) == events

\* _fireSoon(...events): push, clear the pending timeout, set a new one
fireSoonBuffer(buf, events) == buf \o events

\* mutation: the callback is due at once
fireSoonDue_now(t) == t

\* setTimeout(..., 5): the time at which the callback is due
fireSoonDue(t) == t + DEBOUNCE_MS

\* history: the events as they were given to _fireSoon
Logged(events, t) == [i \in 1..Len(events) |-> [ev |-> events[i], at |-> t]]

fireSoon(events) ==
  /\ bufferedEvents' = fireSoonBuffer(bufferedEvents, events)
  /\ timerPending' = TRUE
  /\ timerDue' = fireSoonDue(now)
  /\ schedLog' = schedLog \o Logged(events, now)
  /\ UNCHANGED <<delivered, disposed>>

\* _emitter.fire(batch): a disposed emitter has no listeners left
emitterFire(batches, batch, isDisposed) ==
  IF isDisposed THEN batches ELSE Append(batches, batch)

\* the setTimeout callback of _fireSoon
fireSoon_timeout ==
  /\ timerPending
  /\ now >= timerDue
  /\ delivered' = emitterFire(delivered, bufferedEvents, disposed)
  /\ bufferedEvents' = <<>>
  /\ timerPending' = FALSE
  /\ UNCHANGED <<now, cacheVars, mountVars, calls, last, remoteVars,
                 timerDue, disposed, schedLog>>
  /\ UNCHANGED asideVars

Event(type, uri) == [type |-> type, uri |-> uri]

\* the number of events in these batches
RECURSIVE SumLen(_)
SumLen(batches) ==
  IF batches = <<>> THEN 0 ELSE Len(Head(batches)) + SumLen(Tail(batches))

Scheduled == Len(schedLog)

\* --------------------------------------------------------- call bookkeeping
\* A call starts in the lowest slot that holds no call in flight.
Free(c) ==
  /\ calls[c].pc = "idle"
  /\ \A d \in CallIds : d < c => calls[d].pc # "idle"

\* epoch is history, kept for the two fetches whose answer is cached with a
\* TTL: how many events had been scheduled when the call began
Start(op, uri) ==
  [IdleCall EXCEPT !.op = op, !.uri = uri,
                   !.epoch = IF op \in {"stat", "readDirectory"}
                             THEN Len(schedLog) ELSE 0]

\* the call awaits the client method it has called with this request
Send(call, req) == [call EXCEPT !.pc = "sent", !.sends = Append(@, req)]

Returned(call, result, ret) ==
  [call EXCEPT !.pc = "done", !.result = result, !.ret = ret, !.resp = NoResp,
               !.epoch = 0]

\* call c returns (or throws) to its caller
Return(c, call, result, ret) ==
  /\ calls' = [calls EXCEPT ![c] = IdleCall]
  /\ last' = Returned(call, result, ret)

Schedule(call, events) == [call EXCEPT !.evts = @ \o events]

\* ------------------------------------------------------- the remote vault
\* What the vault API answers (spec section 6).  status "ok" is a 2xx answer,
\* "409" and "404" are ApiError with that status, "other" is any other
\* failure of the call (another status, AuthError, a network error).
Exists(path) == path \in VaultPaths /\ remote[path].kind # "absent"

Children(path) ==
  LET dir == IF path = RootPath THEN <<>> ELSE path
  IN  {q \in VaultPaths : q # RootPath /\ Exists(q)
                          /\ SubSeq(q, 1, Len(q) - 1) = dir}

StatResp(path) ==
  IF Exists(path)
  THEN [NoResp EXCEPT !.status = "ok",
                      !.is_directory = (remote[path].kind = "dir"),
                      !.size_bytes = SizeOf(remote[path].content),
                      !.modified_at_ms = remote[path].ver]
  ELSE [NoResp EXCEPT !.status = "404"]

ListResp(path) ==
  IF Exists(path) /\ remote[path].kind = "dir"
  THEN [NoResp EXCEPT !.status = "ok",
                      !.entries = {[name |-> q[Len(q)],
                                    is_directory |-> (remote[q].kind = "dir")]
                                   : q \in Children(path)}]
  ELSE [NoResp EXCEPT !.status = "404"]

ReadResp(path) ==
  IF Exists(path) /\ remote[path].kind = "file"
  THEN [NoResp EXCEPT !.status = "ok", !.content = remote[path].content,
                      !.etag = ETag(remote[path].ver)]
  ELSE [NoResp EXCEPT !.status = "404"]

\* write(path, content, ifMatch?): Conflict if ifMatch is present and stale
WriteAccepted(path, ifMatch) ==
  \/ ifMatch = NoTag
  \/ ifMatch = Wildcard
  \/ remote[path].kind = "file" /\ ifMatch = ETag(remote[path].ver)

WriteResp(path, ifMatch) ==
  IF path \notin FilePaths THEN [NoResp EXCEPT !.status = "404"]
  ELSE IF WriteAccepted(path, ifMatch)
  THEN [NoResp EXCEPT !.status = "ok", !.etag = ETag(remoteVer + 1)]
  ELSE [NoResp EXCEPT !.status = "409"]

\* delete(path): fails with NotFound
DeleteResp(path) ==
  IF Exists(path) THEN [NoResp EXCEPT !.status = "ok"]
  ELSE [NoResp EXCEPT !.status = "404"]

\* rename(fromPath, toPath) -> {etag}: NotFound on a missing source, Conflict
\* on an existing destination
RenameResp(from, to) ==
  IF ~Exists(from) THEN [NoResp EXCEPT !.status = "404"]
  ELSE IF Exists(to) THEN [NoResp EXCEPT !.status = "409"]
  ELSE [NoResp EXCEPT !.status = "ok", !.etag = ETag(remote[from].ver)]

\* mkdir(path)
MkdirResp(path) ==
  IF Exists(path) THEN [NoResp EXCEPT !.status = "409"]
  ELSE [NoResp EXCEPT !.status = "ok"]

Absent == [kind |-> "absent", ver |-> 0, content |-> ""]

Faults == {"none", "404", "other"}

\* The remote handles the request of call c (or the request fails on the way:
\* fault) and the answer is on its way back.
ServerHandle(c, fault) ==
  /\ calls[c].pc = "sent"
  /\ calls[c].op = "writeFile" => remoteVer < MaxVer
  /\ LET call == calls[c]
         req == call.sends[Len(call.sends)]
         path == parseUri(call.uri).vaultPath
         to == parseUri(call.newUri).vaultPath
         resp == IF fault # "none" THEN [NoResp EXCEPT !.status = fault]
                 ELSE CASE call.op = "stat" -> StatResp(path)
                        [] call.op = "readDirectory" -> ListResp(path)
                        [] call.op = "readFile" -> ReadResp(path)
                        [] call.op = "writeFile" -> WriteResp(path, req.ifMatch)
                        [] call.op = "delete" -> DeleteResp(path)
                        [] call.op = "rename" -> RenameResp(path, to)
                        [] call.op = "createDirectory" -> MkdirResp(path)
         written == call.op = "writeFile" /\ resp.status = "ok"
         done(op) == call.op = op /\ resp.status = "ok"
     IN  /\ calls' = [calls EXCEPT ![c] =
                        [call EXCEPT !.pc = "replied", !.resp = resp,
                                     !.statuses = Append(@, resp.status)]]
         /\ remote' = IF written
                      THEN [remote EXCEPT ![path] =
                              [kind |-> "file", ver |-> remoteVer + 1,
                               content |-> req.content]]
                      ELSE IF done("delete")
                      THEN [remote EXCEPT ![path] = Absent]
                      ELSE IF done("rename")
                      THEN [remote EXCEPT ![to] = remote[path], ![path] = Absent]
                      ELSE IF done("createDirectory")
                      THEN [remote EXCEPT ![path] =
                              [kind |-> "dir", ver |-> 0, content |-> ""]]
                      ELSE remote
         /\ remoteVer' = IF written THEN remoteVer + 1 ELSE remoteVer
  /\ UNCHANGED <<now, cacheVars, eventVars, mountVars, last>>
  /\ UNCHANGED asideVars

\* Another client (an agent) writes a file of the vault, or deletes it
\* (content "").
RemoteChange(path, content) ==
  /\ remoteVer < MaxVer
  /\ remoteVer' = remoteVer + 1
  /\ remote' = [remote EXCEPT ![path] =
                  IF content = ""
                  THEN [kind |-> "absent", ver |-> 0, content |-> ""]
                  ELSE [kind |-> "file", ver |-> remoteVer + 1, content |-> content]]
  /\ UNCHANGED <<now, cacheVars, eventVars, mountVars, calls, last>>
  /\ UNCHANGED asideVars

\* ------------------------------------------------------------------ clock
Tick ==
  /\ now < MaxTicks * TickMs
  /\ now' = now + TickMs
  /\ UNCHANGED <<cacheVars, eventVars, mountVars, calls, last, remoteVars>>
  /\ UNCHANGED asideVars

\* a few milliseconds pass
FineMs == 3

TickFine ==
  /\ now < MaxFineTicks * FineMs
  /\ now' = now + FineMs
  /\ UNCHANGED <<cacheVars, eventVars, mountVars, calls, last, remoteVars>>
  /\ UNCHANGED asideVars

\* -------------------------------------------------------------- stat(uri)
\* cached && Date.now() < cached.expires
statHit(entry, t) == t < entry.expires

statPut(sc, key, st, t) == MapSet(sc, key, [stat |-> st, expires |-> t + STAT_TTL])

\* mutation: no path is taken for the root
isRoot_never(vaultPath) == FALSE

\* vaultPath === "/" || vaultPath === ""
isRoot(vaultPath) == vaultPath = <<"">> \/ vaultPath = <<>>

stat(c, uri) ==
  /\ Free(c)
  /\ LET key == uri
         call == Start("stat", uri)
         rootStat == [type |-> "Directory", mtime |-> now, size |-> 0]
     IN  IF MapHas(statCache, key) /\ statHit(statCache[key], now)
         THEN /\ Return(c, [call EXCEPT !.fromCache = TRUE], "ok", statCache[key].stat)
              /\ UNCHANGED <<statCache, firstStat>>
         ELSE IF isRoot(parseUri(uri).vaultPath)
         THEN /\ statCache' = statPut(statCache, key, rootStat, now)
              /\ firstStat' = FirstPut(firstStat, key, rootStat, now, STAT_TTL)
              /\ Return(c, call, "ok", rootStat)
         ELSE /\ calls' = [calls EXCEPT ![c] = Send(call, NoReq)]
              /\ UNCHANGED <<statCache, firstStat, last>>
  /\ UNCHANGED <<now, dirCache, fileCache, etagCache, lastRW, firstDir,
                 eventVars, mountVars, remoteVars>>
  /\ UNCHANGED asideVars

stat_resume(c) ==
  /\ calls[c].op = "stat" /\ calls[c].pc = "replied"
  /\ LET call == calls[c]
         response == call.resp
         st == [type |-> IF response.is_directory THEN "Directory" ELSE "File",
                mtime |-> response.modified_at_ms,
                size |-> response.size_bytes]
     IN  IF response.status = "ok"
         THEN /\ statCache' = statPut(statCache, call.uri, st, now)
              /\ firstStat' = FirstPut(firstStat, call.uri, st, now, STAT_TTL)
              /\ Return(c, call, "ok", st)
         ELSE /\ Return(c, call, "FileNotFound", NoStat)
              /\ UNCHANGED <<statCache, firstStat>>
  /\ UNCHANGED <<now, dirCache, fileCache, etagCache, lastRW, firstDir,
                 eventVars, mountVars, remoteVars>>
  /\ UNCHANGED asideVars

\* ------------------------------------------------------ readDirectory(uri)
dirHit(entry, t) == t < entry.expires

dirPut(dc, key, entries, t) ==
  MapSet(dc, key, [entries |-> entries, expires |-> t + DIR_TTL])

readDirectory(c, uri) ==
  /\ Free(c)
  /\ LET key == uri
         call == Start("readDirectory", uri)
     IN  IF MapHas(dirCache, key) /\ dirHit(dirCache[key], now)
         THEN Return(c, [call EXCEPT !.fromCache = TRUE], "ok", dirCache[key].entries)
         ELSE calls' = [calls EXCEPT ![c] = Send(call, NoReq)] /\ UNCHANGED last
  /\ UNCHANGED <<now, cacheVars, eventVars, mountVars, remoteVars>>
  /\ UNCHANGED asideVars

readDirectory_resume(c) ==
  /\ calls[c].op = "readDirectory" /\ calls[c].pc = "replied"
  /\ LET call == calls[c]
         result == {<<e.name, IF e.is_directory THEN "Directory" ELSE "File">>
                    : e \in call.resp.entries}
     IN  IF call.resp.status = "ok"
         THEN /\ dirCache' = dirPut(dirCache, call.uri, result, now)
              /\ firstDir' = FirstPut(firstDir, call.uri, result, now, DIR_TTL)
              /\ Return(c, call, "ok", result)
         ELSE /\ Return(c, call, "FileNotFound", {})
              /\ UNCHANGED <<dirCache, firstDir>>
  /\ UNCHANGED <<now, statCache, fileCache, etagCache, lastRW, firstStat,
                 eventVars, mountVars, remoteVars>>
  /\ UNCHANGED asideVars

\* ----------------------------------------------------------- readFile(uri)
\* the content entry is served when the stat entry cached for the key has
\* the same mtime
contentValid_anyMtime(fc, sc, key) == MapHas(fc, key) /\ MapHas(sc, key)
contentValid(fc, sc, key) ==
  /\ MapHas(fc, key)
  /\ MapHas(sc, key)
  /\ sc[key].stat.mtime = fc[key].mtime

readFile(c, uri) ==
  /\ Free(c)
  /\ LET key == uri
         call == Start("readFile", uri)
     IN  IF contentValid(fileCache, statCache, key)
         THEN Return(c, [call EXCEPT !.fromCache = TRUE], "ok", fileCache[key].content)
         ELSE calls' = [calls EXCEPT ![c] = Send(call, NoReq)] /\ UNCHANGED last
  /\ UNCHANGED <<now, cacheVars, eventVars, mountVars, remoteVars>>
  /\ UNCHANGED asideVars

\* mutation: readFile does not store the etag
readFileEtag_skip(ec, key, etag) == ec

\* if (etag) this.etagCache.set(key, etag)
readFileEtag(ec, key, etag) ==
  IF etag # NoTag THEN MapSet(ec, key, etag) ELSE ec

\* const stat = this.statCache.get(key); if (stat) this.fileCache.set(...)
readFileContent(fc, sc, key, content) ==
  IF MapHas(sc, key)
  THEN MapSet(fc, key, [content |-> content, mtime |-> sc[key].stat.mtime])
  ELSE fc

readFile_resume(c) ==
  /\ calls[c].op = "readFile" /\ calls[c].pc = "replied"
  /\ LET call == calls[c]
         key == call.uri
     IN  IF call.resp.status = "ok"
         THEN /\ etagCache' = readFileEtag(etagCache, key, call.resp.etag)
              /\ TokenSet(key, call.resp.etag)
              /\ fileCache' = readFileContent(fileCache, statCache, key, call.resp.content)
              /\ Return(c, call, "ok", call.resp.content)
         ELSE /\ Return(c, call, "FileNotFound", "")
              /\ UNCHANGED <<etagCache, fileCache, lastRW>>
  /\ UNCHANGED <<now, statCache, dirCache, firstStat, firstDir, eventVars,
                 mountVars, remoteVars>>
  /\ UNCHANGED asideVars

\* ---------------------------------------- writeFile(uri, content, options)
\* mutation: a header is sent also when no token is cached
writeIfMatch_always(ec, key) == IF MapHas(ec, key) THEN ec[key] ELSE ETag(0)

\* const ifMatch = this.etagCache.get(key); vaultWrite sets the If-Match
\* header when ifMatch !== undefined
writeIfMatch(ec, key) == IF MapHas(ec, key) THEN ec[key] ELSE NoTag

writeFile(c, uri, content, create) ==
  /\ Free(c)
  /\ LET call == [Start("writeFile", uri) EXCEPT !.content = content,
                                                 !.create = create]
         req == [ifMatch |-> writeIfMatch(etagCache, uri), content |-> content]
     IN  calls' = [calls EXCEPT ![c] = Send(call, req)]
  /\ UNCHANGED <<now, last, cacheVars, eventVars, mountVars, remoteVars>>
  /\ UNCHANGED asideVars

\* mutation: the create option is ignored
writeEventType_changed(create) == "Changed"
writeEventType(create) == IF create THEN "Created" ELSE "Changed"

\* what the catch block of writeFile throws for a failure other than 409
writeError(status) == IF status = "404" THEN "FileNotFound" ELSE "Unavailable"

\* mutation: the catch block swallows the error and the method goes on
completed_swallow(response) == TRUE

\* await this.client.vault...(...) returns; otherwise the catch block throws
\* and nothing after the try statement runs
completed(response) == response.status = "ok"

writeFile_resume(c) ==
  /\ calls[c].op = "writeFile" /\ calls[c].pc = "replied" /\ calls[c].choice = ""
  /\ LET call == calls[c]
         key == call.uri
         ev == <<Event(writeEventType(call.create), call.uri)>>
     IN  IF completed(call.resp)
         THEN /\ etagCache' = MapSet(etagCache, key, call.resp.etag)
              /\ TokenSet(key, call.resp.etag)
              /\ invalidateCache(call.uri)
              /\ fireSoon(ev)
              /\ Return(c, Schedule(call, ev), "ok", "")
         ELSE IF call.resp.status = "409"
         THEN \* _handleConflict: await showWarningMessage(...)
              /\ calls' = [calls EXCEPT ![c] = [call EXCEPT !.pc = "prompt",
                                                            !.prompts = @ + 1]]
              /\ UNCHANGED <<cacheVars, eventVars, last>>
         ELSE /\ Return(c, call, writeError(call.resp.status), "")
              /\ UNCHANGED <<cacheVars, eventVars>>
  /\ UNCHANGED <<now, mountVars, remoteVars>>
  /\ UNCHANGED asideVars

\* ------------------------------------------------------------- delete(uri)
delete(c, uri) ==
  /\ Free(c)
  /\ calls' = [calls EXCEPT ![c] = Send(Start("delete", uri), NoReq)]
  /\ UNCHANGED <<now, last, cacheVars, eventVars, mountVars, remoteVars>>
  /\ UNCHANGED asideVars

\* mutation: a missing file is reported as unavailable
deleteError_unavailable(status) == "Unavailable"

\* what the catch block of delete throws
deleteError(status) == IF status = "404" THEN "FileNotFound" ELSE "Unavailable"

delete_resume(c) ==
  /\ calls[c].op = "delete" /\ calls[c].pc = "replied"
  /\ LET call == calls[c]
         ev == <<Event("Deleted", call.uri)>>
     IN  IF completed(call.resp)
         THEN /\ etagCache' = MapDelete(etagCache, call.uri)
              /\ TokenDropped(call.uri)
              /\ invalidateCache(call.uri)
              /\ fireSoon(ev)
              /\ Return(c, Schedule(call, ev), "ok", "")
         ELSE /\ Return(c, call, deleteError(call.resp.status), "")
              /\ UNCHANGED <<cacheVars, eventVars>>
  /\ UNCHANGED <<now, mountVars, remoteVars>>
  /\ UNCHANGED asideVars

\* ---------------------------------------------- rename(oldUri, newUri, options)
rename(c, oldUri, newUri, overwrite) ==
  /\ Free(c)
  /\ LET call == [Start("rename", oldUri) EXCEPT !.newUri = newUri,
                                                 !.overwrite = overwrite]
     IN  calls' = [calls EXCEPT ![c] = Send(call, NoReq)]
  /\ UNCHANGED <<now, last, cacheVars, eventVars, mountVars, remoteVars>>
  /\ UNCHANGED asideVars

\* if (result.etag) etagCache.set(newUri, result.etag); ...
\* etagCache.delete(oldUri)
renameEtag(ec, oldKey, newKey, etag) ==
  MapDelete(IF etag # NoTag THEN MapSet(ec, newKey, etag) ELSE ec, oldKey)

\* mutation: the two events are scheduled in the opposite order
renameEvents_swapped(oldUri, newUri) ==
  <<Event("Created", newUri), Event("Deleted", oldUri)>>

\* _fireSoon({Deleted, oldUri}, {Created, newUri})
renameEvents(oldUri, newUri) ==
  <<Event("Deleted", oldUri), Event("Created", newUri)>>

\* what the catch block of rename throws
renameError(status) ==
  CASE status = "404" -> "FileNotFound"
    [] status = "409" -> "FileExists"
    [] OTHER -> "Unavailable"

rename_resume(c) ==
  /\ calls[c].op = "rename" /\ calls[c].pc = "replied"
  /\ LET call == calls[c]
         old == call.uri
         new == call.newUri
         ev == renameEvents(old, new)
     IN  IF completed(call.resp)
         THEN /\ etagCache' = renameEtag(etagCache, old, new, call.resp.etag)
              /\ lastRW' = [k \in DOMAIN lastRW \cup {new} |->
                              IF k = old THEN [lastRW[k] EXCEPT !.live = FALSE]
                              ELSE IF k = new
                              THEN [etag |-> call.resp.etag, live |-> TRUE]
                              ELSE lastRW[k]]
              /\ statCache' = invalidateStat(invalidateStat(statCache, old), new)
              /\ fileCache' = invalidateFile(invalidateFile(fileCache, old), new)
              /\ dirCache' = invalidateDir(invalidateDir(dirCache, old), new)
              /\ firstStat' = MapDelete(MapDelete(firstStat, old), new)
              /\ firstDir' = MapDelete(MapDelete(firstDir, ParentUri(old)),
                                       ParentUri(new))
              /\ fireSoon(ev)
              /\ Return(c, Schedule(call, ev), "ok", "")
         ELSE /\ Return(c, call, renameError(call.resp.status), "")
              /\ UNCHANGED <<cacheVars, eventVars>>
  /\ UNCHANGED <<now, mountVars, remoteVars>>
  /\ UNCHANGED asideVars

\* ---------------------------------------------------- createDirectory(uri)
createDirectory(c, uri) ==
  /\ Free(c)
  /\ calls' = [calls EXCEPT ![c] = Send(Start("createDirectory", uri), NoReq)]
  /\ UNCHANGED <<now, last, cacheVars, eventVars, mountVars, remoteVars>>
  /\ UNCHANGED asideVars

createDirectory_resume(c) ==
  /\ calls[c].op = "createDirectory" /\ calls[c].pc = "replied"
  /\ LET call == calls[c]
         ev == <<Event("Created", call.uri)>>
     IN  IF completed(call.resp)
         THEN /\ invalidateCache(call.uri)
              /\ fireSoon(ev)
              /\ Return(c, Schedule(call, ev), "ok", "")
              /\ UNCHANGED <<etagCache, lastRW>>
         ELSE /\ Return(c, call, "Unavailable", "")
              /\ UNCHANGED <<cacheVars, eventVars>>
  /\ UNCHANGED <<now, mountVars, remoteVars>>
  /\ UNCHANGED asideVars

\* -------------------------------------------------------- _handleConflict
Choices == {"Upload Anyway", "Discard Local Changes", "undefined"}

\* mutations: the resend repeats a (stale) version precondition; the resend
\* does not carry the local content
resendReq_stale(localContent) == [ifMatch |-> ETag(0), content |-> localContent]
resendReq_empty(localContent) == [ifMatch |-> Wildcard, content |-> ""]

\* the request of the resend: vaultWrite(projectId, vaultPath, localContent, "*")
resendReq(localContent) == [ifMatch |-> Wildcard, content |-> localContent]

\* the user answers the modal prompt (or dismisses it: undefined)
handleConflict(c, choice) ==
  /\ calls[c].op = "writeFile" /\ calls[c].pc = "prompt"
  /\ LET call == [calls[c] EXCEPT !.choice = choice]
         ev == <<Event("Changed", call.uri)>>
     IN  IF choice = "Upload Anyway"
         THEN /\ calls' = [calls EXCEPT ![c] = Send(call, resendReq(call.content))]
              /\ UNCHANGED <<cacheVars, eventVars, last>>
         ELSE /\ etagCache' = MapDelete(etagCache, call.uri)
              /\ TokenDropped(call.uri)
              /\ invalidateCache(call.uri)
              /\ fireSoon(ev)
              /\ Return(c, Schedule(call, ev), "Unavailable", "")
  /\ UNCHANGED <<now, mountVars, remoteVars>>
  /\ UNCHANGED asideVars

\* after the resend: its failure leaves _handleConflict and writeFile as it is
handleConflict_resume(c) ==
  /\ calls[c].op = "writeFile" /\ calls[c].pc = "replied"
  /\ calls[c].choice = "Upload Anyway"
  /\ LET call == calls[c]
         ev == <<Event("Changed", call.uri)>>
     IN  IF call.resp.status = "ok"
         THEN /\ etagCache' = MapSet(etagCache, call.uri, call.resp.etag)
              /\ TokenSet(call.uri, call.resp.etag)
              /\ invalidateCache(call.uri)
              /\ fireSoon(ev)
              /\ Return(c, Schedule(call, ev), "ok", "")
         ELSE /\ Return(c, call, "ApiError", "")
              /\ UNCHANGED <<cacheVars, eventVars>>
  /\ UNCHANGED <<now, mountVars, remoteVars>>
  /\ UNCHANGED asideVars

\* ---------------------------------------------------------- mount, stream
setToken(token) ==
  /\ clientToken # token
  /\ clientToken' = token
  /\ UNCHANGED <<now, cacheVars, eventVars, currentProjectId, workspaceFolders,
                 streamVars, mounts, calls, last, remoteVars>>
  /\ UNCHANGED asideVars

\* startActivityStream(projectId): sseClient.connect(...) unless unauthenticated
startActivityStream(controller, authenticated, projectId) ==
  IF authenticated THEN projectId ELSE controller

\* SSEClient.connect: disconnect(), a new controller, fetchEventSource
connectState(state, authenticated) == IF authenticated THEN "open" ELSE state
connectInflight(msgs, authenticated) == IF authenticated THEN NoMessages ELSE msgs

\* controller.abort() ends the fetchEventSource call made with its signal,
\* the newest one
aborted(ss, controller) ==
  IF controller # "" /\ ss # <<>> THEN SubSeq(ss, 1, Len(ss) - 1) ELSE ss

connectStreams(ss, controller, authenticated, projectId) ==
  IF authenticated THEN Append(aborted(ss, controller), projectId) ELSE ss

\* vscode.workspace.updateWorkspaceFolders(folderCount, null, {uri, name}):
\* the folder is appended; a folder whose URI is already in the workspace is
\* refused
addFolder(folders, projectId) ==
  IF \E i \in 1..Len(folders) : folders[i] = projectId THEN folders
  ELSE Append(folders, projectId)

mountProject(projectId) ==
  /\ mounts < MaxMounts
  /\ mounts' = mounts + 1
  /\ currentProjectId' = projectId
  /\ workspaceFolders' = addFolder(workspaceFolders, projectId)
  /\ sseController' = startActivityStream(sseController, clientToken, projectId)
  /\ sseState' = connectState(sseState, clientToken)
  /\ inflight' = connectInflight(inflight, clientToken)
  /\ streams' = connectStreams(streams, sseController, clientToken, projectId)
  /\ UNCHANGED <<now, cacheVars, eventVars, clientToken, calls, last, remoteVars>>
  /\ UNCHANGED asideVars

\* mutation: the stream is not aborted
abort_ignored(state) == state

\* controller?.abort(): fetchEventSource stops reading the stream and clears
\* its retry timer
abort(state) == "idle"

\* SSEClient.disconnect()
disconnect ==
  /\ sseController' = ""
  /\ sseState' = IF sseController # "" THEN abort(sseState) ELSE sseState
  /\ inflight' = IF sseState' = "idle" THEN NoMessages ELSE inflight
  /\ streams' = aborted(streams, sseController)

\* mutation: the map is not cleared
clearMap_keep(m) == m

\* Map.clear()
clearMap(m) == EmptyMap

clearAllCaches ==
  /\ statCache' = clearMap(statCache)
  /\ dirCache' = clearMap(dirCache)
  /\ fileCache' = clearMap(fileCache)
  /\ etagCache' = clearMap(etagCache)
  /\ lastRW' = [k \in DOMAIN lastRW |-> [lastRW[k] EXCEPT !.live = FALSE]]
  /\ firstStat' = EmptyMap
  /\ firstDir' = EmptyMap

\* folders.findIndex(f => f.uri.scheme === "engenai"), updateWorkspaceFolders(idx, 1)
removeFolder(folders) == IF folders = <<>> THEN folders ELSE Tail(folders)

unmountProject ==
  /\ disconnect
  /\ clearAllCaches
  /\ workspaceFolders' = removeFolder(workspaceFolders)
  /\ currentProjectId' = ""
  /\ UNCHANGED <<now, eventVars, clientToken, mounts, calls, last, remoteVars>>
  /\ UNCHANGED asideVars

dispose ==
  /\ ~disposed
  /\ disconnect
  /\ disposed' = TRUE
  /\ clearAllCaches
  /\ timerPending' = FALSE
  /\ UNCHANGED <<now, bufferedEvents, delivered, timerDue, schedLog,
                 currentProjectId, workspaceFolders, clientToken, mounts,
                 calls, last, remoteVars>>
  /\ UNCHANGED asideVars

Actions == {"created", "updated", "deleted"}

\* mutation: every action is reported as a change
changeType_changed(action) == "Changed"

changeType(action) ==
  CASE action = "created" -> "Created"
    [] action = "deleted" -> "Deleted"
    [] OTHER -> "Changed"

handleRemoteFileChangeBody(projectId, path, action) ==
  /\ Scheduled < MaxEvents
  /\ LET uri == VaultUri(projectId, path)
     IN  /\ invalidateCache(uri)
         /\ fireSoon(<<Event(changeType(action), uri)>>)
  /\ UNCHANGED <<now, etagCache, lastRW, currentProjectId, workspaceFolders,
                 clientToken, mounts, calls, last, remoteVars>>
  /\ UNCHANGED asideVars

\* onMessage of the stream opened for projectId delivers {path, action}: the
\* notification arrives and is handled at once
handleRemoteFileChange(projectId, path, action) ==
  /\ sseController = projectId
  /\ sseState = "open"
  /\ handleRemoteFileChangeBody(projectId, path, action)
  /\ UNCHANGED streamVars

\* The same in two steps.  The stream of projectId receives a notification
\* ...
ServerNotify(projectId, path, action) ==
  /\ sseState = "open"
  /\ sseController = projectId
  /\ inflight = NoMessages
  /\ Len(schedLog) + Len(inflight) < MaxEvents
  /\ inflight' = Append(inflight, [projectId |-> projectId, path |-> path,
                                   action |-> action, kind |-> "object"])
  /\ UNCHANGED <<now, cacheVars, eventVars, currentProjectId, workspaceFolders,
                 sseController, sseState, streams, clientToken, mounts, calls, last,
                 remoteVars>>
  /\ UNCHANGED asideVars

\* Other payloads on the stream: text that is not JSON, the JSON value null,
\* and a JSON object with no path and no action.
OddKinds == {"text", "null", "nopath"}

ServerNotifyOdd(projectId, kind) ==
  /\ sseState = "open"
  /\ sseController = projectId
  /\ inflight = NoMessages
  /\ Len(schedLog) + Len(inflight) < MaxEvents
  /\ inflight' = Append(inflight, [projectId |-> projectId, path |-> UndefinedPath,
                                   action |-> "undefined", kind |-> kind])
  /\ UNCHANGED <<now, cacheVars, eventVars, currentProjectId, workspaceFolders,
                 sseController, sseState, streams, clientToken, mounts, calls, last,
                 remoteVars>>
  /\ UNCHANGED asideVars

\* the try block of onMessage completes: JSON.parse(event.data) throws on text
\* that is not JSON, and data.path throws on null
parsed(kind) == kind \notin {"text", "null"}

\* ... and fetchEventSource hands it to onmessage
onMessage ==
  /\ inflight # NoMessages
  /\ sseState = "open"
  /\ LET m == Head(inflight)
     IN  IF parsed(m.kind)
         THEN handleRemoteFileChangeBody(m.projectId, m.path, m.action)
         ELSE UNCHANGED <<now, cacheVars, eventVars, currentProjectId,
                          workspaceFolders, clientToken, mounts, calls, last,
                          remoteVars, asideVars>>
  /\ inflight' = Tail(inflight)
  /\ UNCHANGED <<sseController, sseState, streams>>

\* The server closes the stream or the connection breaks: onclose throws a
\* RetriableError, onerror returns 5000 and fetchEventSource waits to retry
ConnectionLost ==
  /\ sseState = "open"
  /\ inflight = NoMessages
  /\ sseState' = "waiting"
  /\ UNCHANGED <<now, cacheVars, eventVars, currentProjectId, workspaceFolders,
                 sseController, inflight, streams, clientToken, mounts, calls, last,
                 remoteVars>>
  /\ UNCHANGED asideVars

\* the retry timer of fetchEventSource fires and the stream is open again
Reconnect ==
  /\ sseState = "waiting"
  /\ sseState' = "open"
  /\ UNCHANGED <<now, cacheVars, eventVars, currentProjectId, workspaceFolders,
                 sseController, inflight, streams, clientToken, mounts, calls, last,
                 remoteVars>>
  /\ UNCHANGED asideVars

\* --------------------------------------------------------- specifications
UriB == VaultUri("p1", FileB)
UriC == VaultUri("p1", FileC)
UriA == VaultUri("p1", DirA)

\* Writes with conflict resolution, one call at a time: reads that fetch
\* tokens and fill the caches, writes by this client, writes and deletes by
\* other clients.
NextWrite ==
  \/ stat(1, UriB)
  \/ stat_resume(1)
  \/ readDirectory(1, UriA)
  \/ readDirectory_resume(1)
  \/ readFile(1, UriB)
  \/ readFile_resume(1)
  \/ \E u \in FileUris, cr \in BOOLEAN : writeFile(1, u, "yy", cr)
  \/ writeFile_resume(1)
  \/ \E ch \in Choices : handleConflict(1, ch)
  \/ handleConflict_resume(1)
  \/ ServerHandle(1, "none")
  \/ \E fault \in {"404", "other"} :
        calls[1].op = "writeFile" /\ ServerHandle(1, fault)
  \/ \E t \in {"x", ""} : RemoteChange(FileB, t)

SpecWrite == Init /\ [][NextWrite]_vars

\* The caches over time, one call at a time: reads that fill them, the clock
\* that expires their entries, and changes made by other clients.
NextCache ==
  \/ \E u \in {RootUri("p1"), UriB} : stat(1, u)
  \/ stat_resume(1)
  \/ readDirectory(1, UriA)
  \/ readDirectory_resume(1)
  \/ readFile(1, UriB)
  \/ readFile_resume(1)
  \/ \E fault \in {"none", "other"} : ServerHandle(1, fault)
  \/ RemoteChange(FileB, "yy")
  \/ Tick

SpecCache == Init /\ [][NextCache]_vars

\* Notifications of the activity stream, one call at a time: reads that fill
\* the caches of a mounted project and the invalidations that follow the
\* changes other clients report.
NextNotify ==
  \/ \E u \in FileUris : stat(1, u)
  \/ stat_resume(1)
  \/ \E u \in {UriA, RootUri("p1")} : readDirectory(1, u)
  \/ readDirectory_resume(1)
  \/ readFile(1, UriB)
  \/ readFile_resume(1)
  \/ ServerHandle(1, "none")
  \/ setToken(TRUE)
  \/ mountProject("p1")
  \/ RemoteChange(FileC, "x")
  \/ handleRemoteFileChange("p1", FileB, "updated")
  \/ handleRemoteFileChange("p1", DirA, "deleted")

SpecNotify == Init /\ [][NextNotify]_vars

\* Overlapping stat and readDirectory calls while other clients change the
\* vault.
NextOverlap ==
  \/ \E c \in CallIds :
       \/ stat(c, UriB)
       \/ stat_resume(c)
       \/ readDirectory(c, UriA)
       \/ readDirectory_resume(c)
       \/ ServerHandle(c, "none")
  \/ RemoteChange(FileB, "yy")
  \/ RemoteChange(FileC, "x")
  \/ Tick

SpecOverlap == Init /\ [][NextOverlap]_vars

\* Reads of /a/b.txt and of its folder in two overlapping calls while another
\* client rewrites the file and the stream announces the change.
NextStale ==
  \/ \E c \in CallIds :
       \/ stat(c, UriB)
       \/ stat_resume(c)
       \/ readFile(c, UriB)
       \/ readFile_resume(c)
       \/ ServerHandle(c, "none")
  \/ RemoteChange(FileB, "yy")
  \/ setToken(TRUE)
  \/ mountProject("p1")
  \/ handleRemoteFileChange("p1", FileB, "updated")

SpecStale == Init /\ [][NextStale]_vars

\* The activity stream of a mounted project: notifications in flight, the
\* connection lost and reopened, unmount and dispose.
StreamActions == Actions \cup {"moved"}

NextStream ==
  \/ setToken(TRUE)
  \/ mountProject("p1")
  \/ stat(1, UriB)
  \/ stat_resume(1)
  \/ ServerHandle(1, "none")
  \/ \E a \in StreamActions : ServerNotify("p1", FileB, a)
  \/ \E k \in OddKinds : ServerNotifyOdd("p1", k)
  \/ onMessage
  \/ ConnectionLost
  \/ Reconnect
  \/ unmountProject
  \/ dispose

SpecStream == Init /\ [][NextStream]_vars

\* Notifications, the debounce timer and the clock in steps of a few
\* milliseconds.
NextDebounce ==
  \/ setToken(TRUE)
  \/ mountProject("p1")
  \/ stat(1, UriB)
  \/ stat_resume(1)
  \/ ServerHandle(1, "none")
  \/ \E a \in StreamActions : ServerNotify("p1", FileB, a)
  \/ onMessage
  \/ fireSoon_timeout
  \/ TickFine
  \/ dispose

SpecDebounce == Init /\ [][NextDebounce]_vars

\* Mounting and unmounting around reads that fill the four caches.
NextMount ==
  \/ \E b \in BOOLEAN : setToken(b)
  \/ mountProject("p1")
  \/ unmountProject
  \/ stat(1, UriB)
  \/ stat_resume(1)
  \/ readDirectory(1, UriA)
  \/ readDirectory_resume(1)
  \/ readFile(1, UriB)
  \/ readFile_resume(1)
  \/ ServerHandle(1, "none")
  \/ RemoteChange(FileB, "yy")

SpecMount == Init /\ [][NextMount]_vars

\* The same with a host that calls the provider only while a project is
\* mounted: what completes after unmountProject was in flight at the unmount.
NextUnmount ==
  \/ \E b \in BOOLEAN : setToken(b)
  \/ mountProject("p1")
  \/ unmountProject
  \/ currentProjectId # "" /\ stat(1, UriB)
  \/ stat_resume(1)
  \/ currentProjectId # "" /\ readDirectory(1, UriA)
  \/ readDirectory_resume(1)
  \/ currentProjectId # "" /\ readFile(1, UriB)
  \/ readFile_resume(1)
  \/ ServerHandle(1, "none")
  \/ RemoteChange(FileB, "yy")

SpecUnmount == Init /\ [][NextUnmount]_vars

\* Deleting, renaming and creating, one call at a time, around reads that
\* fetch tokens, with the debounce timer delivering the events.
NextOps ==
  \/ readFile(1, UriB)
  \/ readFile_resume(1)
  \/ Scheduled < MaxEvents /\ \E u \in FileUris : delete(1, u)
  \/ delete_resume(1)
  \/ Scheduled < MaxEvents /\ \E ow \in BOOLEAN : rename(1, UriB, UriC, ow)
  \/ rename_resume(1)
  \/ Scheduled < MaxEvents /\ createDirectory(1, UriC)
  \/ createDirectory_resume(1)
  \/ \E fault \in {"none", "other"} : ServerHandle(1, fault)
  \/ RemoteChange(FileC, "x")
  \/ fireSoon_timeout
  \/ timerPending /\ TickFine

SpecOps == Init /\ [][NextOps]_vars

\* Writing, deleting, renaming and creating with a remote that may refuse the
\* call, after reads that fill the caches and with events waiting in the buffer.
NextFail ==
  \/ stat(1, UriB)
  \/ stat_resume(1)
  \/ readDirectory(1, UriA)
  \/ readDirectory_resume(1)
  \/ readFile(1, UriB)
  \/ readFile_resume(1)
  \/ Scheduled < MaxEvents /\ \E cr \in BOOLEAN : writeFile(1, UriB, "yy", cr)
  \/ writeFile_resume(1)
  \/ Scheduled < MaxEvents /\ delete(1, UriB)
  \/ delete_resume(1)
  \/ Scheduled < MaxEvents /\ rename(1, UriB, UriC, FALSE)
  \/ rename_resume(1)
  \/ Scheduled < MaxEvents /\ createDirectory(1, UriC)
  \/ createDirectory_resume(1)
  \/ \E fault \in {"none", "404", "other"} : ServerHandle(1, fault)

SpecFail == Init /\ [][NextFail]_vars

\* Overlapping reads and writes of one file: two calls in flight, the remote
\* answers them in any order.
NextRace ==
  \/ \E c \in CallIds : readFile(c, UriB)
  \/ \E c \in CallIds : readFile_resume(c)
  \/ \E c \in CallIds : writeFile(c, UriB, "yy", FALSE)
  \/ \E c \in CallIds : writeFile_resume(c)
  \/ \E c \in CallIds, ch \in Choices : handleConflict(c, ch)
  \/ \E c \in CallIds : handleConflict_resume(c)
  \/ \E c \in CallIds : ServerHandle(c, "none")
  \/ \E c \in CallIds, fault \in {"404", "other"} :
        calls[c].op = "writeFile" /\ ServerHandle(c, fault)
  \/ \E t \in {"x", ""} : RemoteChange(FileB, t)

SpecRace == Init /\ [][NextRace]_vars

\* ------------------------------------------------------------ TokenBatcher
AgentIds == {"keith", "sophi"}
Tokens == {"Hello ", "world", ""}

\* Map.get(agentId) ?? "", and the value endStream tests for truth: the
\* empty string when there is no entry
bufGet(buf, agentId) ==
  IF \E i \in 1..Len(buf) : buf[i].agentId = agentId
  THEN buf[CHOOSE i \in 1..Len(buf) : buf[i].agentId = agentId].content
  ELSE <<>>

\* Map.set(agentId, content): an entry keeps its place, a new one goes last
bufSet(buf, agentId, content) ==
  IF \E i \in 1..Len(buf) : buf[i].agentId = agentId
  THEN [i \in 1..Len(buf) |->
          IF buf[i].agentId = agentId
          THEN [agentId |-> agentId, content |-> content] ELSE buf[i]]
  ELSE Append(buf, [agentId |-> agentId, content |-> content])

\* Map.delete(agentId)
bufDelete(buf, agentId) ==
  LET keep(e) == e.agentId # agentId IN SelectSeq(buf, keep)

\* mutation: the token replaces what was buffered
tokenAppend_last(current, token) ==
  IF token = "" THEN current ELSE <<token>>

\* current + token
tokenAppend(current, token) ==
  IF token = "" THEN current ELSE Append(current, token)

TokenMsg(agentId, content) ==
  [type |-> "streamToken", agentId |-> agentId, content |-> content]
EndMsg(agentId) ==
  [type |-> "streamEnd", agentId |-> agentId, content |-> <<>>]

\* mutation: every token sets the timeout anew
batchDue_restart(isSet, due, t) == t + BATCH_INTERVAL

\* if (!this.timer) this.timer = setTimeout(..., BATCH_INTERVAL)
batchDue(isSet, due, t) == IF isSet THEN due ELSE t + BATCH_INTERVAL

\* history: one more call of the batcher
Called(kind, agentId, token) ==
  added' = Append(added, [kind |-> kind, agentId |-> agentId, token |-> token])

addToken(agentId, token) ==
  /\ Len(added) < MaxCalls
  /\ buffers' = bufSet(buffers, agentId, tokenAppend(bufGet(buffers, agentId), token))
  /\ timer' = TRUE
  /\ timerAt' = batchDue(timer, timerAt, now)
  /\ Called("token", agentId, token)
  /\ UNCHANGED <<now, cacheVars, eventVars, mountVars, calls, last, remoteVars,
                 posted, uriVars, signInVars>>

\* mutation: the end message goes first
endStreamMessages_endFirst(agentId, remaining) ==
  <<EndMsg(agentId)>> \o
  (IF remaining # <<>> THEN <<TokenMsg(agentId, remaining)>> ELSE <<>>)

\* what endStream posts
endStreamMessages(agentId, remaining) ==
  (IF remaining # <<>> THEN <<TokenMsg(agentId, remaining)>> ELSE <<>>)
  \o <<EndMsg(agentId)>>

endStream(agentId) ==
  /\ Len(added) < MaxCalls
  /\ LET remaining == bufGet(buffers, agentId)
     IN  /\ posted' = posted \o endStreamMessages(agentId, remaining)
         /\ buffers' = IF remaining # <<>> THEN bufDelete(buffers, agentId)
                       ELSE buffers
  /\ Called("end", agentId, "")
  /\ UNCHANGED <<now, cacheVars, eventVars, mountVars, calls, last, remoteVars,
                 timer, timerAt, uriVars, signInVars>>

\* for (const [agentId, content] of this.buffers) if (content) postMessage(...)
flushMessages(buf) ==
  LET full(e) == e.content # <<>>
      es == SelectSeq(buf, full)
  IN  [i \in 1..Len(es) |-> TokenMsg(es[i].agentId, es[i].content)]

\* the setTimeout callback of addToken
flush ==
  /\ Len(added) < MaxCalls
  /\ timer
  /\ now >= timerAt
  /\ posted' = posted \o flushMessages(buffers)
  /\ buffers' = <<>>
  /\ timer' = FALSE
  /\ Called("flush", "", "")
  /\ UNCHANGED <<now, cacheVars, eventVars, mountVars, calls, last, remoteVars,
                 timerAt, uriVars, signInVars>>

\* mutation: dispose leaves the buffers as they are
buffersClear_keep(buf) == buf

\* this.buffers.clear()
buffersClear(buf) == <<>>

\* TokenBatcher.dispose()
TokenBatcher_dispose ==
  /\ Len(added) < MaxCalls
  /\ timer' = FALSE
  /\ buffers' = buffersClear(buffers)
  /\ Called("dispose", "", "")
  /\ UNCHANGED <<now, cacheVars, eventVars, mountVars, calls, last, remoteVars,
                 timerAt, posted, uriVars, signInVars>>

FrameMs == BATCH_INTERVAL \div 2

TickFrame ==
  /\ now < MaxFrames * FrameMs
  /\ now' = now + FrameMs
  /\ UNCHANGED <<cacheVars, eventVars, mountVars, calls, last, remoteVars,
                 asideVars>>

NextBatcher ==
  \/ \E a \in AgentIds, t \in Tokens : addToken(a, t)
  \/ \E a \in AgentIds : endStream(a)
  \/ flush
  \/ TokenBatcher_dispose
  \/ TickFrame

SpecBatcher == Init /\ [][NextBatcher]_vars

\* ------------------------------------------- URIs, character by character
\* A string is a sequence of characters; "project-", "vault" and "engenai"
\* stand for the runs of letters they spell, "a" and "p" for any letter that
\* is none of the others.

\* the longest prefix of s free of the characters in stops
RECURSIVE TakeUntil(_, _)
TakeUntil(s, stops) ==
  IF s = <<>> \/ Head(s) \in stops THEN <<>>
  ELSE <<Head(s)>> \o TakeUntil(Tail(s), stops)

\* `engenai://project-${projectId}/vault${vaultPath}`
uriTemplate(projectId, vaultPath) ==
  <<"engenai", ":", "/", "/", "project-">> \o projectId \o <<"/", "vault">>
    \o vaultPath

\* vscode.Uri.parse(value): scheme up to ":", authority after "//" up to the
\* first of / ? #, path up to the first of ? #; query and fragment follow
UriParse(text) ==
  LET scheme == TakeUntil(text, {":", "/", "?", "#"})
      rest == SubSeq(text, Len(scheme) + 4, Len(text))
      authority == TakeUntil(rest, {"/", "?", "#"})
      tail == SubSeq(rest, Len(authority) + 1, Len(rest))
  IN  [authority |-> authority, path |-> TakeUntil(tail, {"?", "#"})]

\* parseUri on characters: authority.replace("project-", "") and
\* path.replace(/^\/vault/, "") || "/"
parseUriText(uri) ==
  LET path == uri.path
      cut == IF Len(path) >= 2 /\ path[1] = "/" /\ path[2] = "vault"
             THEN SubSeq(path, 3, Len(path)) ELSE path
  IN  [projectId |-> RemoveFirst(uri.authority, "project-"),
       vaultPath |-> IF cut = <<>> THEN <<"/">> ELSE cut]

\* all sequences over chars of length at most n
RECURSIVE Strings(_, _)
Strings(chars, n) ==
  IF n = 0 THEN {<<>>}
  ELSE LET shorter == Strings(chars, n - 1)
       IN  shorter \cup {Append(w, ch) : w \in shorter, ch \in chars}

ProjectIdChars == {"p", "project-"}
PathChars == {"/", "a", "vault", "#", "?"}

\* absolute vault paths, and no path at all
VaultPathTexts ==
  {<<>>} \cup {<<"/">> \o w : w \in Strings(PathChars, MaxPathLen)}

UriInputs ==
  [projectId : Strings(ProjectIdChars, 2) \ {<<>>}, vaultPath : VaultPathTexts]

InitUri ==
  /\ InitFs
  /\ InitBatcher
  /\ uriArg \in UriInputs
  /\ uriRes = NoArg
  /\ InitSignIn

\* the URI is built from uriArg as mountProject and handleRemoteFileChange
\* build it, and given to parseUri
parseBuilt ==
  /\ uriRes = NoArg
  /\ uriRes' = parseUriText(UriParse(uriTemplate(uriArg.projectId, uriArg.vaultPath)))
  /\ UNCHANGED <<now, cacheVars, eventVars, mountVars, calls, last, remoteVars,
                 batcherVars, uriArg, signInVars>>

NextUri == parseBuilt

SpecUri == InitUri /\ [][NextUri]_vars

\* stat of the mount root and of a file, while the clock advances and the
\* vault changes or does not answer.
RootUris == {RootUri("p1"), VaultUri("p1", RootPath)}

NextRoot ==
  \/ \E u \in RootUris \cup {UriB} : stat(1, u)
  \/ stat_resume(1)
  \/ \E fault \in {"none", "other"} : ServerHandle(1, fault)
  \/ \E t \in {"yy", ""} : RemoteChange(FileB, t)
  \/ Tick

SpecRoot == Init /\ [][NextRoot]_vars

\* dispose while a write is in flight or its event waits in the buffer.
NextDispose ==
  \/ Scheduled < MaxEvents /\ \E cr \in BOOLEAN : writeFile(1, UriB, "yy", cr)
  \/ writeFile_resume(1)
  \/ \E fault \in {"none", "other"} : ServerHandle(1, fault)
  \/ RemoteChange(FileB, "x")
  \/ fireSoon_timeout
  \/ TickFine
  \/ dispose

SpecDispose == Init /\ [][NextDispose]_vars

\* ------------------------------------------------------------ pollForToken
fsVars == <<now, cacheVars, eventVars, mountVars, calls, last, remoteVars>>

\* what the token endpoint answers: 200, or 4xx with this error field, or
\* the fetch itself fails
Answers == {"ok", "authorization_pending", "slow_down", "expired_token",
            "access_denied", "server_error", "fetch failed"}

\* EnGenAIClient.pollDeviceToken: the token, null, or an Error with a message
pollDeviceToken(answer) ==
  IF answer = "ok" THEN [kind |-> "token", message |-> ""]
  ELSE IF answer \in {"authorization_pending", "slow_down"}
  THEN [kind |-> "null", message |-> ""]
  ELSE [kind |-> "throw", message |-> answer]

IntervalCap == 30000

\* pollInterval = Math.min(pollInterval * 2, 30_000)
slowDown(pollInterval) ==
  IF pollInterval * 2 < IntervalCap THEN pollInterval * 2 ELSE IntervalCap

\* the catch block of the loop body
caughtInterval(pollInterval, message) ==
  IF message = "slow_down" THEN slowDown(pollInterval) ELSE pollInterval

gaveUp(message) == message \in {"expired_token", "access_denied"}

\* while (Date.now() < deadline) { if (isCancellationRequested) return null;
\* await sleep(pollInterval) ... } return null
whileHead(p, t) ==
  IF t < p.deadline /\ ~p.isCancellationRequested
  THEN [p EXCEPT !.pc = "sleeping"]
  ELSE [p EXCEPT !.pc = "done", !.result = "null"]

\* device.interval and device.expires_in, in seconds
Intervals == {5, 20}
Expiries == {15, 60}

pollForToken(interval, expiresIn) ==
  /\ poll.pc = "idle"
  /\ poll' = whileHead([poll EXCEPT !.deadline = now + expiresIn * 1000,
                                    !.pollInterval = interval * 1000], now)
  /\ UNCHANGED <<fsVars, batcherVars, uriVars, authVars>>

\* the timeout of sleep(pollInterval) fires; the token is polled for unless
\* cancellation was requested
sleep_resume ==
  /\ poll.pc = "sleeping"
  /\ now' = now + poll.pollInterval
  /\ poll' = IF poll.isCancellationRequested
             THEN [poll EXCEPT !.pc = "done", !.result = "null"]
             ELSE [poll EXCEPT !.pc = "polling"]
  /\ UNCHANGED <<cacheVars, eventVars, mountVars, calls, last, remoteVars>>
  /\ UNCHANGED <<batcherVars, uriVars, authVars>>

\* the answer of the token endpoint arrives: the rest of the loop body, and
\* the loop condition again
pollDeviceToken_resume(answer) ==
  /\ poll.pc = "polling"
  /\ LET r == pollDeviceToken(answer)
         p == [poll EXCEPT !.answer = answer]
     IN  poll' =
           IF r.kind = "token"
           THEN [p EXCEPT !.pc = "done", !.result = "token"]
           ELSE IF r.kind = "throw" /\ gaveUp(r.message)
           THEN [p EXCEPT !.pc = "done", !.result = "null"]
           ELSE IF r.kind = "throw"
           THEN whileHead([p EXCEPT !.pollInterval = caughtInterval(@, r.message)],
                          now)
           ELSE whileHead(p, now)
  /\ UNCHANGED <<fsVars, batcherVars, uriVars, authVars>>

\* the user presses Cancel on the progress notification
cancel ==
  /\ poll.pc \in {"sleeping", "polling"}
  /\ ~poll.isCancellationRequested
  /\ poll' = [poll EXCEPT !.isCancellationRequested = TRUE]
  /\ UNCHANGED <<fsVars, batcherVars, uriVars, authVars>>

NextPoll ==
  \/ \E i \in Intervals, e \in Expiries : pollForToken(i, e)
  \/ sleep_resume
  \/ \E a \in Answers : pollDeviceToken_resume(a)
  \/ cancel

SpecPoll == Init /\ [][NextPoll]_vars

\* ------------------------------------------------------------- AuthManager
\* what an AuthManager method leaves alone besides its own fields and the
\* token of the API client
authFrame ==
  UNCHANGED <<now, cacheVars, eventVars, currentProjectId, workspaceFolders,
              streamVars, mounts, calls, last, remoteVars, batcherVars, uriVars,
              poll>>

\* secrets.onDidChange for engenai.pat: _handleTokenChange() runs up to its
\* await this.secrets.get(TOKEN_KEY); one handler at a time is followed
onDidChange(ac) ==
  IF ac.handleTokenChange = "idle" THEN [ac EXCEPT !.handleTokenChange = "get"]
  ELSE ac

\* removeSession(sessionId) for the stored session, up to and with
\* await this.secrets.delete(TOKEN_KEY)
removeSession ==
  /\ authCalls.removeSession = "idle"
  /\ secrets.sessions
  /\ secrets' = [token |-> FALSE, sessions |-> FALSE]
  /\ authCalls' = onDidChange([authCalls EXCEPT !.removeSession = "deleted"])
  /\ UNCHANGED <<authState, healthCheckInterval, clientToken>>
  /\ authFrame

\* setToken(undefined); _setState("disconnected"); _stopHealthCheck()
removeSession_resume ==
  /\ authCalls.removeSession = "deleted"
  /\ clientToken' = FALSE
  /\ authState' = "disconnected"
  /\ healthCheckInterval' = FALSE
  /\ authCalls' = [authCalls EXCEPT !.removeSession = "idle"]
  /\ UNCHANGED secrets
  /\ authFrame

\* tryRestore() on activation, up to await this.secrets.get(TOKEN_KEY)
tryRestore ==
  /\ authCalls.tryRestore = "idle"
  /\ authCalls' = [authCalls EXCEPT !.tryRestore = "get"]
  /\ UNCHANGED <<authState, secrets, healthCheckInterval, clientToken>>
  /\ authFrame

\* if (!token) return false; _setState("connecting"); setToken(token);
\* await this.client.validateToken()
tryRestore_get ==
  /\ authCalls.tryRestore = "get"
  /\ IF secrets.token
     THEN /\ authState' = "connecting"
          /\ clientToken' = TRUE
          /\ authCalls' = [authCalls EXCEPT !.tryRestore = "validating"]
     ELSE /\ authCalls' = [authCalls EXCEPT !.tryRestore = "idle"]
          /\ UNCHANGED <<authState, clientToken>>
  /\ UNCHANGED <<secrets, healthCheckInterval>>
  /\ authFrame

\* what validateToken gives for a request sent with a token: the user, an
\* AuthError (401), or another error
Validations == {"ok", "AuthError", "offline"}

tryRestore_resume(outcome) ==
  /\ authCalls.tryRestore = "validating"
  /\ IF outcome = "ok"
     THEN /\ authState' = "connected"
          /\ healthCheckInterval' = TRUE
          /\ UNCHANGED clientToken
     ELSE /\ clientToken' = FALSE
          /\ authState' = "disconnected"
          /\ UNCHANGED healthCheckInterval
  /\ authCalls' = [authCalls EXCEPT !.tryRestore = "idle"]
  /\ UNCHANGED secrets
  /\ authFrame

\* _handleTokenChange after its await this.secrets.get(TOKEN_KEY)
handleTokenChange_resume ==
  /\ authCalls.handleTokenChange = "get"
  /\ IF secrets.token /\ ~clientToken
     THEN /\ authCalls' = [authCalls EXCEPT
                             !.handleTokenChange = "idle",
                             !.tryRestore = IF @ = "idle" THEN "get" ELSE @]
          /\ UNCHANGED <<authState, clientToken>>
     ELSE IF ~secrets.token /\ clientToken
     THEN /\ clientToken' = FALSE
          /\ authState' = "disconnected"
          /\ authCalls' = [authCalls EXCEPT !.handleTokenChange = "idle"]
     ELSE /\ authCalls' = [authCalls EXCEPT !.handleTokenChange = "idle"]
          /\ UNCHANGED <<authState, clientToken>>
  /\ UNCHANGED <<secrets, healthCheckInterval>>
  /\ authFrame

\* storeDeviceFlowToken(token, userInfo), up to and with
\* await this.secrets.store(TOKEN_KEY, token)
storeDeviceFlowToken ==
  /\ authCalls.storeDeviceFlowToken = "idle"
  /\ secrets' = [secrets EXCEPT !.token = TRUE]
  /\ authCalls' = onDidChange([authCalls EXCEPT !.storeDeviceFlowToken = "stored"])
  /\ UNCHANGED <<authState, healthCheckInterval, clientToken>>
  /\ authFrame

\* this.client.setToken(token); await this.secrets.store(SESSIONS_KEY, ...)
storeDeviceFlowToken_stored ==
  /\ authCalls.storeDeviceFlowToken = "stored"
  /\ clientToken' = TRUE
  /\ secrets' = [secrets EXCEPT !.sessions = TRUE]
  /\ authCalls' = [authCalls EXCEPT !.storeDeviceFlowToken = "sessions"]
  /\ UNCHANGED <<authState, healthCheckInterval>>
  /\ authFrame

\* _setState("connected", userInfo); _startHealthCheck()
storeDeviceFlowToken_resume ==
  /\ authCalls.storeDeviceFlowToken = "sessions"
  /\ authState' = "connected"
  /\ healthCheckInterval' = TRUE
  /\ authCalls' = [authCalls EXCEPT !.storeDeviceFlowToken = "idle"]
  /\ UNCHANGED <<secrets, clientToken>>
  /\ authFrame

\* the interval fires: the callback sends validateToken with the token the
\* client holds now, or with none
healthCheck ==
  /\ healthCheckInterval
  /\ authCalls.healthCheck = "idle"
  /\ authCalls' = [authCalls EXCEPT
                     !.healthCheck = IF clientToken THEN "sent" ELSE "sentBare"]
  /\ UNCHANGED <<authState, secrets, healthCheckInterval, clientToken>>
  /\ authFrame

\* if (this._state !== "connected") this._setState("connected", this._user)
healthOk(state, token) == "connected"

\* the answer of validateToken arrives; a request without a token gets 401
healthCheck_resume(outcome) ==
  /\ authCalls.healthCheck \in {"sent", "sentBare"}
  /\ authCalls.healthCheck = "sentBare" => outcome # "ok"
  /\ IF outcome = "AuthError"
     THEN \* await this.secrets.delete(TOKEN_KEY)
          /\ secrets' = [secrets EXCEPT !.token = FALSE]
          /\ authCalls' = onDidChange([authCalls EXCEPT !.healthCheck = "deleted"])
          /\ UNCHANGED authState
     ELSE /\ authState' = IF outcome = "ok" THEN healthOk(authState, clientToken)
                          ELSE "offline"
          /\ authCalls' = [authCalls EXCEPT !.healthCheck = "idle"]
          /\ UNCHANGED secrets
  /\ UNCHANGED <<healthCheckInterval, clientToken>>
  /\ authFrame

\* setToken(undefined); _setState("invalid_key"); _stopHealthCheck()
healthCheck_deleted ==
  /\ authCalls.healthCheck = "deleted"
  /\ clientToken' = FALSE
  /\ authState' = "invalid_key"
  /\ healthCheckInterval' = FALSE
  /\ authCalls' = [authCalls EXCEPT !.healthCheck = "idle"]
  /\ UNCHANGED secrets
  /\ authFrame

\* another window stores or deletes engenai.pat
SecretChanged(token) ==
  /\ secrets.token # token
  /\ secrets' = [secrets EXCEPT !.token = token]
  /\ authCalls' = onDidChange(authCalls)
  /\ UNCHANGED <<authState, healthCheckInterval, clientToken>>
  /\ authFrame

NextAuth ==
  \/ storeDeviceFlowToken
  \/ storeDeviceFlowToken_stored
  \/ storeDeviceFlowToken_resume
  \/ removeSession
  \/ removeSession_resume
  \/ tryRestore
  \/ tryRestore_get
  \/ \E o \in Validations : tryRestore_resume(o)
  \/ handleTokenChange_resume
  \/ healthCheck
  \/ \E o \in Validations : healthCheck_resume(o)
  \/ healthCheck_deleted
  \/ \E b \in BOOLEAN : SecretChanged(b)

SpecAuth == Init /\ [][NextAuth]_vars

\* Mounting one project after another, signing in and out, with the stream
\* of the mounted project and a stat call.
MountProjects == {"p1", "p2"}

NextBind ==
  \/ \E p \in MountProjects : mountProject(p)
  \/ unmountProject
  \/ \E b \in BOOLEAN : setToken(b)
  \/ stat(1, UriB)
  \/ stat_resume(1)
  \/ ServerHandle(1, "none")
  \/ \E p \in MountProjects : ServerNotify(p, FileB, "updated")
  \/ onMessage
  \/ ConnectionLost
  \/ Reconnect

SpecBind == Init /\ [][NextBind]_vars

\* The event loop runs every callback that is due: an answer is received and
\* handled, a notification is handled, the retry timer of the stream fires.
FairBind ==
  /\ SpecBind
  /\ WF_vars(ServerHandle(1, "none"))
  /\ WF_vars(stat_resume(1))
  /\ WF_vars(onMessage)
  /\ WF_vars(Reconnect)

\* ------------------------------------------------------------------ claims
\* the writeFile calls in flight and the one that returned last
WriteCalls ==
  {w \in {calls[c] : c \in CallIds} \cup {last} : w.op = "writeFile"}

\* the directory that contains the file or directory uri names
ContainingDir(uri) == [uri EXCEPT !.path = SubSeq(uri.path, 1, Len(uri.path) - 1)]

\* C1: a version conflict (first answer 409) opens the conflict prompt exactly
\* once for the call; the call then either resends once with the wildcard
\* precondition (the user chose to upload) or sends nothing more and fails;
\* nothing is resent without that choice and the call returns successfully
\* only after a successful resend.
C1_ConflictResolvedOnce ==
  \A w \in WriteCalls :
    /\ w.prompts <= 1
    /\ Len(w.sends) <= 2
    /\ w.prompts = 1 => w.statuses # <<>> /\ w.statuses[1] = "409"
    /\ Len(w.sends) = 2 =>
         /\ w.prompts = 1
         /\ w.choice = "Upload Anyway"
         /\ w.sends[2].ifMatch = Wildcard
    /\ w.pc = "done" =>
         /\ (w.statuses # <<>> /\ w.statuses[1] = "409") => w.prompts = 1 /\ w.choice # ""
         /\ w.choice = "Upload Anyway" => Len(w.sends) = 2
         /\ w.choice \in {"Discard Local Changes", "undefined"} =>
              Len(w.sends) = 1 /\ w.result # "ok"
         /\ (w.prompts = 1 /\ w.result = "ok") => w.statuses = <<"409", "ok">>

C1_Witness ==
  /\ last.op = "writeFile" /\ last.prompts = 1
  /\ last.choice = "Upload Anyway" /\ last.result = "ok"
  /\ Len(last.sends) = 2

\* C2: the step in which a conflict is resolved as discard leaves no version
\* token, no stat entry and no content entry for the path, appends exactly
\* one Changed event for the path to the buffer, sends no second write (the
\* remote is untouched) and makes writeFile fail.
DiscardStep(c) == calls[c].pc = "prompt" /\ calls'[c].pc = "idle"

C2_DiscardClearsAndFails ==
  [][\A c \in CallIds : DiscardStep(c) =>
       LET u == calls[c].uri
       IN  /\ ~MapHas(etagCache', u)
           /\ ~MapHas(statCache', u)
           /\ ~MapHas(fileCache', u)
           /\ bufferedEvents' = Append(bufferedEvents, Event("Changed", u))
           /\ timerPending'
           /\ remote' = remote
           /\ last'.op = "writeFile" /\ last'.uri = u
           /\ Len(last'.sends) = 1
           /\ last'.evts = <<Event("Changed", u)>>
           /\ last'.result = "Unavailable"]_vars

C2_Witness ==
  /\ last.op = "writeFile" /\ last.choice = "Discard Local Changes"
  /\ last.result = "Unavailable"
  /\ Len(last.sends) = 1
  /\ ~MapHas(etagCache, last.uri)
  /\ bufferedEvents # <<>>
  /\ bufferedEvents[Len(bufferedEvents)] = Event("Changed", last.uri)

\* C3: choosing to upload resends the content writeFile was called with, once,
\* with the wildcard precondition; when the resend succeeds the path's token
\* is the etag of its answer and the remote holds that content, the path's
\* stat and content entries and the listing of its directory are gone, one
\* Changed event is appended and writeFile returns successfully.
UploadStep(c) == calls[c].pc = "prompt" /\ calls'[c].pc = "sent"

ResendOkStep(c) ==
  /\ calls[c].op = "writeFile" /\ calls[c].pc = "replied"
  /\ calls[c].choice = "Upload Anyway" /\ calls[c].resp.status = "ok"
  /\ calls'[c].pc = "idle"

C3_ForceOverwrite ==
  [][\A c \in CallIds :
       LET u == calls[c].uri
       IN  /\ UploadStep(c) =>
                calls'[c].sends =
                  Append(calls[c].sends,
                         [ifMatch |-> Wildcard, content |-> calls[c].content])
           /\ ResendOkStep(c) =>
                /\ etagCache'[u] = calls[c].resp.etag
                /\ ~MapHas(statCache', u)
                /\ ~MapHas(fileCache', u)
                /\ ~MapHas(dirCache', ContainingDir(u))
                /\ bufferedEvents' = Append(bufferedEvents, Event("Changed", u))
                /\ timerPending'
                /\ last'.evts = <<Event("Changed", u)>>
                /\ Len(last'.sends) = 2
                /\ last'.result = "ok"]_vars

C3_Witness ==
  /\ last.op = "writeFile" /\ last.choice = "Upload Anyway"
  /\ last.result = "ok"
  /\ last.statuses = <<"409", "ok">>
  /\ MapHas(etagCache, last.uri)
  /\ etagCache[last.uri] = ETag(remote[parseUri(last.uri).vaultPath].ver)
  /\ remote[parseUri(last.uri).vaultPath].content = last.content

\* a token set by a read or write of the key is still the key's token
TokenLive(key) == MapHas(lastRW, key) /\ lastRW[key].live

WriteStart(c) ==
  calls[c].pc = "idle" /\ calls'[c].op = "writeFile" /\ calls'[c].pc = "sent"

Statuses(w) == {w.statuses[i] : i \in 1..Len(w.statuses)}

\* C4: a writeFile to a path with no cached token (never read or written
\* since the token was last dropped) is sent without precondition, and a
\* write sent without precondition is never answered 409 and never opens
\* the conflict prompt.
C4_NoTokenNoConflict ==
  [][/\ \A c \in CallIds : WriteStart(c) =>
          LET u == calls'[c].uri
          IN  (~MapHas(etagCache, u) \/ ~TokenLive(u)) =>
                 calls'[c].sends = <<[ifMatch |-> NoTag, content |-> calls'[c].content]>>
      /\ \A w \in WriteCalls' :
           w.sends[1].ifMatch = NoTag =>
             /\ w.prompts = 0
             /\ "409" \notin Statuses(w)
             /\ Len(w.sends) = 1]_vars

C4_Witness ==
  /\ last.op = "writeFile" /\ last.uri = UriC
  /\ last.sends = <<[ifMatch |-> NoTag, content |-> "yy"]>>
  /\ last.result = "ok"
  /\ remote[FileC].content = "yy"

FetchOkStep(c) ==
  /\ calls[c].op \in {"readFile", "writeFile"} /\ calls[c].pc = "replied"
  /\ calls[c].resp.status = "ok"
  /\ calls'[c].pc = "idle"

WriteOkStep(c) ==
  /\ calls[c].op = "writeFile" /\ calls[c].pc = "replied"
  /\ calls[c].choice = "" /\ calls[c].resp.status = "ok"
  /\ calls'[c].pc = "idle"

\* C6: when the write of writeFile succeeds, the path's token becomes the etag
\* of the answer, the path's stat and content entries and the listing of its
\* directory are evicted, and exactly one event for the path is appended:
\* Created if create was requested, Changed otherwise.
C6_WriteSuccess ==
  [][\A c \in CallIds : WriteOkStep(c) =>
       LET u == calls[c].uri
           type == IF calls[c].create THEN "Created" ELSE "Changed"
       IN  /\ MapHas(etagCache', u)
           /\ etagCache'[u] = calls[c].resp.etag
           /\ ~MapHas(statCache', u)
           /\ ~MapHas(fileCache', u)
           /\ ~MapHas(dirCache', ContainingDir(u))
           /\ bufferedEvents' = Append(bufferedEvents, Event(type, u))
           /\ timerPending'
           /\ last'.evts = <<Event(type, u)>>
           /\ last'.result = "ok"]_vars

C6_Witness ==
  /\ last.op = "writeFile" /\ last.create /\ last.choice = ""
  /\ last.result = "ok"
  /\ last.evts = <<Event("Created", last.uri)>>
  /\ MapHas(etagCache, last.uri)
  /\ ~MapHas(statCache, last.uri)
  /\ bufferedEvents # <<>>

\* a call that has just started was answered from the cache
ServedFromCache(c) == calls'[c].pc = "idle" /\ last'.fromCache

\* C7: a stat or readDirectory call that returns in the TTL window of the
\* first fetch of its path, no invalidation of the path in between, returns
\* the result of that first fetch, overlapping calls included.
C7_CacheCoherence ==
  [][\A c \in CallIds :
       /\ (((\E u \in Uris : stat(c, u)) \/ stat_resume(c))
            /\ last'.result = "ok"
            /\ MapHas(firstStat', last'.uri)
            /\ now < firstStat'[last'.uri].at + STAT_TTL)
          => last'.ret = firstStat'[last'.uri].val
       /\ (((\E u \in Uris : readDirectory(c, u)) \/ readDirectory_resume(c))
            /\ last'.result = "ok"
            /\ MapHas(firstDir', last'.uri)
            /\ now < firstDir'[last'.uri].at + DIR_TTL)
          => last'.ret = firstDir'[last'.uri].val]_vars

\* C8: once the expiry time of a stat or listing entry is reached, stat,
\* readDirectory and readFile do not answer from the cache on its strength.
C8_ExpiredEntryIsMiss ==
  [][\A c \in CallIds, u \in Uris :
       /\ (stat(c, u) /\ MapHas(statCache, u) /\ now >= statCache[u].expires)
          => ~ServedFromCache(c)
       /\ (readDirectory(c, u) /\ MapHas(dirCache, u) /\ now >= dirCache[u].expires)
          => ~ServedFromCache(c)
       /\ (readFile(c, u) /\ MapHas(statCache, u) /\ now >= statCache[u].expires)
          => ~ServedFromCache(c)]_vars

\* C9: readFile returns the cached bytes, with no remote call, exactly when
\* the path has a content entry and a stat entry with equal mtimes; in every
\* other case it sends one remote read.
C9_ContentServedOnEqualMtime ==
  [][\A c \in CallIds, u \in FileUris :
       readFile(c, u) =>
         IF /\ MapHas(fileCache, u)
            /\ MapHas(statCache, u)
            /\ fileCache[u].mtime = statCache[u].stat.mtime
         THEN /\ ServedFromCache(c)
              /\ last'.ret = fileCache[u].content
              /\ last'.sends = <<>>
         ELSE /\ calls'[c].pc = "sent"
              /\ Len(calls'[c].sends) = 1
              /\ last' = last]_vars

\* a readFile that finds a content entry whose mtime is not the one of the
\* stat entry has gone to the remote
C9_Witness ==
  /\ calls[1].op = "readFile" /\ calls[1].pc = "sent"
  /\ MapHas(fileCache, UriB) /\ MapHas(statCache, UriB)
  /\ fileCache[UriB].mtime # statCache[UriB].stat.mtime

\* after is before without the entry of key
RemovedOnly(after, before, key) ==
  /\ DOMAIN after = (DOMAIN before) \ {key}
  /\ \A k \in DOMAIN after : after[k] = before[k]

\* C10: invalidating a path removes its stat entry, its content entry and
\* the listing of its parent directory; every other entry of the stat,
\* listing, content and token caches stays as it is.
C10_InvalidateRemovesExactlyThree ==
  [][\A f \in VaultPaths, a \in Actions :
       handleRemoteFileChange("p1", f, a) =>
         LET u == VaultUri("p1", f)
         IN  /\ RemovedOnly(statCache', statCache, u)
             /\ RemovedOnly(fileCache', fileCache, u)
             /\ RemovedOnly(dirCache', dirCache, ContainingDir(u))
             /\ etagCache' = etagCache]_vars

\* the change of /a/b.txt has been reported: its entries and the listing of
\* /a are gone, the sibling's stat entry, the root listing and the token of
\* /a/b.txt are still there
C10_Witness ==
  /\ bufferedEvents # <<>>
  /\ bufferedEvents[Len(bufferedEvents)] = Event("Changed", UriB)
  /\ ~MapHas(statCache, UriB) /\ ~MapHas(fileCache, UriB)
  /\ ~MapHas(dirCache, UriA)
  /\ MapHas(statCache, UriC)
  /\ MapHas(dirCache, RootUri("p1"))
  /\ MapHas(etagCache, UriB)

\* C11: the step that handles a notification for a path evicts the path's
\* stat and content entries and the listing of its parent and buffers one
\* event, Created for "created", Deleted for "deleted", Changed for any other
\* action; nothing is delivered to the editor in that step.
C11_EvictedWhenNotified ==
  [][onMessage =>
       LET m == Head(inflight)
           u == VaultUri(m.projectId, m.path)
           type == IF m.action = "created" THEN "Created"
                   ELSE IF m.action = "deleted" THEN "Deleted" ELSE "Changed"
       IN  /\ ~MapHas(statCache', u)
           /\ ~MapHas(fileCache', u)
           /\ ~MapHas(dirCache', ContainingDir(u))
           /\ bufferedEvents' = Append(bufferedEvents, Event(type, u))
           /\ delivered' = delivered]_vars

\* a stat of /a/b.txt had filled the cache; a notification with an action
\* that is none of the three names has evicted the entry, and its Changed
\* event waits in the buffer
C11_Witness ==
  /\ last.op = "stat" /\ last.uri = UriB /\ last.result = "ok"
  /\ ~MapHas(statCache, UriB)
  /\ bufferedEvents = <<Event("Changed", UriB)>>
  /\ delivered = <<>>
  /\ ~disposed /\ currentProjectId = "p1"

\* C12: unmountProject leaves the four caches empty.
C12_UnmountClearsCaches ==
  [][unmountProject =>
       /\ DOMAIN statCache' = {}
       /\ DOMAIN dirCache' = {}
       /\ DOMAIN fileCache' = {}
       /\ DOMAIN etagCache' = {}]_vars

\* a readFile of /a/b.txt had stored a token, which only unmountProject
\* removes here, and the caches are empty
C12_Witness ==
  /\ last.op = "readFile" /\ last.result = "ok" /\ ~last.fromCache
  /\ calls[1].pc = "idle"
  /\ mounts > 0 /\ currentProjectId = ""
  /\ DOMAIN etagCache = {} /\ DOMAIN statCache = {}
  /\ DOMAIN dirCache = {} /\ DOMAIN fileCache = {}

\* C13: once unmountProject or dispose has closed the stream, no notification
\* is in flight or handled and the stream is not reopened, until the next
\* mount.
C13_ClosedStreamIsSilent ==
  /\ [](sseController = "" => sseState = "idle" /\ inflight = NoMessages)
  /\ [][(onMessage \/ Reconnect) => sseController # ""]_vars

\* the stream had delivered a notification and unmountProject closed it
C13_Witness ==
  /\ schedLog # <<>>
  /\ mounts > 0 /\ currentProjectId = ""
  /\ sseController = "" /\ sseState = "idle"

RenameOkStep(c) ==
  /\ calls[c].op = "rename" /\ calls[c].pc = "replied"
  /\ calls[c].resp.status = "ok"
  /\ calls'[c].pc = "idle"

\* C14: a successful rename appends exactly two events to the buffer,
\* Deleted(old) then Created(new); the timeout delivers the whole buffer as
\* one batch, so the two arrive together in that order; and afterwards old
\* has no token and new holds the etag the remote answered for the renamed
\* file.
C14_RenameTwoEventsAndToken ==
  /\ [][\A c \in CallIds :
          RenameOkStep(c) =>
            LET old == calls[c].uri
                new == calls[c].newUri
            IN  /\ bufferedEvents' = bufferedEvents
                       \o <<Event("Deleted", old), Event("Created", new)>>
                /\ Len(schedLog') = Len(schedLog) + 2
                /\ timerPending'
                /\ delivered' = delivered
                /\ ~MapHas(etagCache', old)
                /\ MapHas(etagCache', new)
                /\ etagCache'[new] = calls[c].resp.etag
                /\ last'.result = "ok"]_vars
  /\ [][(fireSoon_timeout /\ ~disposed) =>
          /\ delivered' = Append(delivered, bufferedEvents)
          /\ bufferedEvents' = <<>>]_vars

\* /a/b.txt was read (token 1) and renamed to /a/c.txt: the two events were
\* delivered as one batch and the token has moved
C14_Witness ==
  /\ delivered = << <<Event("Deleted", UriB), Event("Created", UriC)>> >>
  /\ ~MapHas(etagCache, UriB)
  /\ MapHas(etagCache, UriC) /\ etagCache[UriC] = ETag(1)
  /\ last.op = "rename" /\ last.result = "ok"

\* C15: rename fails not-found when the source is missing, fails with a
\* conflict exactly when the destination exists and overwrite was not
\* permitted, and with overwrite set and the destination existing it does not
\* fail with a conflict.  (The remote answers 404 for a missing source and 409
\* for an existing destination.)
C15_RenameErrors ==
  [][\A c \in CallIds :
       rename_resume(c) =>
         LET sourceMissing == calls[c].resp.status = "404"
             destinationExists == calls[c].resp.status = "409"
         IN  /\ sourceMissing => last'.result = "FileNotFound"
             /\ last'.result = "FileExists"
                  <=> (destinationExists /\ ~calls[c].overwrite)]_vars

DeleteStep(c, status) ==
  /\ calls[c].op = "delete" /\ calls[c].pc = "replied"
  /\ calls[c].resp.status = status
  /\ calls'[c].pc = "idle"

\* C16: a delete the remote accepts drops the token of the uri, evicts its
\* stat and content entries and the listing of its directory and appends one
\* Deleted event; a delete the remote answers 404 fails as FileNotFound and
\* any other failure as Unavailable, and a failed delete changes nothing.
C16_Delete ==
  [][\A c \in CallIds :
       LET u == calls[c].uri
       IN  /\ DeleteStep(c, "ok") =>
                /\ ~MapHas(etagCache', u)
                /\ ~MapHas(statCache', u)
                /\ ~MapHas(fileCache', u)
                /\ ~MapHas(dirCache', ContainingDir(u))
                /\ bufferedEvents' = Append(bufferedEvents, Event("Deleted", u))
                /\ Len(schedLog') = Len(schedLog) + 1
                /\ last'.result = "ok"
           /\ \A st \in {"404", "409", "other"} :
                DeleteStep(c, st) =>
                  /\ last'.result = IF st = "404" THEN "FileNotFound"
                                    ELSE "Unavailable"
                  /\ UNCHANGED <<statCache, dirCache, fileCache, etagCache,
                                 bufferedEvents, schedLog>>]_vars

\* /a/b.txt was read, so it had a token, and was deleted: the token is gone
\* and the Deleted event is buffered
C16_Witness ==
  /\ last.op = "delete" /\ last.uri = UriB /\ last.result = "ok"
  /\ MapHas(lastRW, UriB) /\ ~MapHas(etagCache, UriB)
  /\ bufferedEvents = <<Event("Deleted", UriB)>>

\* the failures of the fixed taxonomy, as vscode.FileSystemError names them:
\* NotFound, Conflict, Unavailable, PermissionDenied
Taxonomy == {"FileNotFound", "FileExists", "Unavailable", "NoPermissions"}

\* C17: whatever remote call fails, the call of the façade operation ends with
\* an error of the taxonomy, never with the error the client threw.
C17_FailuresInTaxonomy ==
  last.result \in {"pending", "ok"} \cup Taxonomy

\* the events of these batches, in order
RECURSIVE Flatten(_)
Flatten(batches) ==
  IF batches = <<>> THEN <<>> ELSE Head(batches) \o Flatten(Tail(batches))

\* the batch that holds the k-th delivered event
RECURSIVE BatchOf(_, _)
BatchOf(batches, k) ==
  IF k <= Len(Head(batches)) THEN 1
  ELSE 1 + BatchOf(Tail(batches), k - Len(Head(batches)))

\* C18: of two events scheduled one after the other less than the debounce
\* window apart, the first is delivered only together with the second, in one
\* batch; a batch that was delivered is never extended, so an event scheduled
\* after it goes into a later batch.
C18_DebounceBatches ==
  /\ [](~disposed =>
         \A i \in 1..(Len(schedLog) - 1) :
           (/\ i <= SumLen(delivered)
            /\ schedLog[i + 1].at - schedLog[i].at < DEBOUNCE_MS)
           => /\ i + 1 <= SumLen(delivered)
              /\ BatchOf(delivered, i) = BatchOf(delivered, i + 1))
  /\ [][/\ Len(delivered') >= Len(delivered)
        /\ SubSeq(delivered', 1, Len(delivered)) = delivered
        /\ schedLog' # schedLog => delivered' = delivered]_vars

\* two events scheduled 3 ms apart have been delivered as one batch
C18_Witness ==
  /\ ~disposed
  /\ Len(schedLog) = 2 /\ schedLog[2].at = schedLog[1].at + FineMs
  /\ Len(delivered) = 1 /\ Len(delivered[1]) = 2

\* C19: as long as dispose was not called, the delivered batches followed by
\* the buffer are the scheduled events in arrival order, nothing lost and
\* nothing twice; events in the buffer have a timeout pending that will
\* deliver them; and the timeout leaves the buffer empty.
C19_DeliveredExactlyOnce ==
  /\ [](~disposed =>
         /\ Flatten(delivered) \o bufferedEvents
              = [i \in 1..Len(schedLog) |-> schedLog[i].ev]
         /\ bufferedEvents # <<>> => timerPending)
  /\ [][fireSoon_timeout => bufferedEvents' = <<>>]_vars

\* an event was scheduled again before the flush: both wait in the buffer
C19_Witness ==
  /\ ~disposed
  /\ Len(bufferedEvents) = 2
  /\ schedLog[1].at < schedLog[2].at
  /\ delivered = <<>>

\* a writeFile call completes with success, first write or forced resend
WriteDoneStep(c) == WriteOkStep(c) \/ ResendOkStep(c)

\* C20: when a successful writeFile completes after another successful
\* writeFile to the same path, with no other call left in flight, and the
\* remote still holds the version written by one of the two, the token left
\* in the cache is the token of the version that the remote holds.
C20_LastWriteTokenWins ==
  [][\A c \in CallIds :
       LET u == calls[c].uri
           held == remote[parseUri(u).vaultPath]
       IN  (/\ WriteDoneStep(c)
            /\ \A d \in CallIds \ {c} : calls[d].pc = "idle"
            /\ last.op = "writeFile" /\ last.result = "ok" /\ last.uri = u
            /\ MapHas(etagCache, u)
            /\ held.kind = "file"
            /\ ETag(held.ver) \in {etagCache[u], calls[c].resp.etag})
           => /\ MapHas(etagCache', u)
              /\ etagCache'[u] = ETag(held.ver)]_vars

\* C21: at most one Dev-Vault folder is in the workspace and at most one
\* project is bound, in every state; and unmountProject leaves no Dev-Vault
\* folder and no bound project.
C21_SingleMount ==
  /\ [](Len(workspaceFolders) <= 1)
  /\ [][unmountProject => workspaceFolders' = <<>> /\ currentProjectId' = ""]_vars

\* the stream of the mounted project is open
LiveUpdates ==
  currentProjectId # "" /\ sseController = currentProjectId /\ sseState = "open"

\* C22: mountProject without an authenticated session binds the project and
\* its folder and opens no stream; while no stream was opened no notification
\* is received; and a mount whose session is authenticated gets its stream
\* open, unless it is unmounted or signed out first.
C22_UnauthenticatedMount ==
  /\ [][\A p \in MountProjects :
          (mountProject(p) /\ ~clientToken)
          => /\ currentProjectId' = p
             /\ \E i \in 1..Len(workspaceFolders') : workspaceFolders'[i] = p
             /\ streams' = streams /\ sseState' = sseState]_vars
  /\ [](streams = <<>> => inflight = NoMessages)
  /\ (currentProjectId # "" /\ clientToken)
       ~> (LiveUpdates \/ currentProjectId = "" \/ ~clientToken)

\* C23: at most one fetchEventSource call is running at any time, and it is
\* the one for the project that is mounted.
C23_OneStreamOfTheMount ==
  /\ Len(streams) <= 1
  /\ streams # <<>> => streams[1] = currentProjectId

\* C27: a call reaches the remote client only while a project is mounted.
C27_RemoteOnlyWhenMounted ==
  [][\A c \in CallIds :
       (calls[c].pc = "idle" /\ calls'[c].pc = "sent") => currentProjectId # ""]_vars

\* C24: stat of the mount root, whether its URI ends in /vault or in /vault/,
\* returns at once with a Directory stat and sends nothing to the remote,
\* whatever the caches hold and whatever state the vault is in.
C24_RootStatIsLocal ==
  [][\A c \in CallIds, u \in RootUris :
       stat(c, u) => /\ calls'[c].pc = "idle"
                     /\ last'.uri = u /\ last'.result = "ok"
                     /\ last'.ret.type = "Directory"
                     /\ last'.sends = <<>>
                     /\ remoteVars' = remoteVars]_vars

\* the root was stat-ed afresh at a later time, after the vault lost its file
C24_Witness ==
  /\ last.uri \in RootUris /\ last.result = "ok" /\ ~last.fromCache
  /\ last.ret.type = "Directory" /\ last.ret.mtime > 0
  /\ remote[FileB].kind = "absent"

\* a payload that is not a JSON object with a path
Malformed(m) == m.kind # "object"

\* C25: when a malformed payload is handled, no cache entry changes, no event
\* is scheduled, no call is affected, and the stream stays open.
C25_MalformedIgnored ==
  [][(onMessage /\ Malformed(Head(inflight)))
     => /\ cacheVars' = cacheVars
        /\ eventVars' = eventVars
        /\ calls' = calls /\ last' = last
        /\ sseState' = "open" /\ sseController' = sseController]_vars

\* C26: parsing the URI built from a project id and an absolute vault path
\* gives back that project id and that path, and "/" for the path when the
\* URI was built with no vault path.
C26_UriRoundTrip ==
  uriRes # NoArg =>
    /\ uriRes.projectId = uriArg.projectId
    /\ uriRes.vaultPath = IF uriArg.vaultPath = <<>> THEN <<"/">>
                          ELSE uriArg.vaultPath

\* C28: once dispose was called no debounce timeout is pending, and no batch
\* is delivered any more.
C28_DisposeStopsDelivery ==
  /\ [](disposed => ~timerPending)
  /\ [][disposed => delivered' = delivered]_vars

\* the tokens added for agent a in this part of the history, joined
RECURSIVE TokensOf(_, _)
TokensOf(log, a) ==
  IF log = <<>> THEN <<>>
  ELSE LET h == Head(log)
           rest == TokensOf(Tail(log), a)
       IN  IF h.kind = "token" /\ h.agentId = a /\ h.token # ""
           THEN <<h.token>> \o rest ELSE rest

\* the history after the last entry that satisfies Mark
After(log, Mark(_)) ==
  LET marks == {i \in 1..Len(log) : Mark(log[i])}
      k == IF marks = {} THEN 0 ELSE CHOOSE i \in marks : \A j \in marks : j <= i
  IN  SubSeq(log, k + 1, Len(log))

\* the calls since the batch timer was last unset
ThisBatch ==
  LET Mark(e) == e.kind \in {"flush", "dispose"} IN After(added, Mark)

\* the calls of this batch since endStream was last called for agent a
SinceEnd(a) ==
  LET Mark(e) == e.kind \in {"flush", "dispose"} \/ (e.kind = "end" /\ e.agentId = a)
  IN  After(added, Mark)

\* the streamToken messages for agent a that this step posts
NewTokenMsgs(a) ==
  LET mine(m) == m.type = "streamToken" /\ m.agentId = a
  IN  SelectSeq(SubSeq(posted', Len(posted) + 1, Len(posted')), mine)

\* a token sets the timeout if none is set, and leaves a set one alone
TimerStartedOnce ==
  \A a \in AgentIds, t \in Tokens :
    addToken(a, t) =>
      /\ timer'
      /\ timerAt' = IF timer THEN timerAt ELSE now + BATCH_INTERVAL

\* C29 as stated: when the batch timer fires, the tokens added for an agent
\* since the timer was set are posted as exactly one streamToken message,
\* their concatenation in the order added; the timer is set by the first
\* token and not set again by later ones.
C29_OneMessagePerBatch ==
  /\ [][flush =>
         \A a \in AgentIds :
           (\E i \in 1..Len(ThisBatch) :
              ThisBatch[i].kind = "token" /\ ThisBatch[i].agentId = a)
           => NewTokenMsgs(a) = <<TokenMsg(a, TokensOf(ThisBatch, a))>>]_vars
  /\ [][TimerStartedOnce]_vars

\* C29, amended: the tokens that count are those added after the agent's
\* last endStream, and no message is posted when they join to the empty
\* string.
C29_OneMessagePerBatchSinceEnd ==
  /\ [][flush =>
         \A a \in AgentIds :
           NewTokenMsgs(a) =
             IF TokensOf(SinceEnd(a), a) # <<>>
             THEN <<TokenMsg(a, TokensOf(SinceEnd(a), a))>> ELSE <<>>]_vars
  /\ [][TimerStartedOnce]_vars

\* two tokens were added for keith and the timeout, 16 ms after the first,
\* has posted them as one message
C29_Witness ==
  /\ Len(added) = 3 /\ added[3].kind = "flush"
  /\ posted = <<TokenMsg("keith", <<"Hello ", "world">>)>>
  /\ now = BATCH_INTERVAL

\* C30: endStream(a) posts, in the step of the call, the tokens buffered for
\* a as one streamToken message if there are any, then one streamEnd
\* message for a, and nothing else; the buffers of the other agents stay as
\* they are.
C30_EndStream ==
  [][\A a \in AgentIds :
       endStream(a) =>
         /\ posted' = posted
              \o (IF TokensOf(SinceEnd(a), a) # <<>>
                  THEN <<TokenMsg(a, TokensOf(SinceEnd(a), a))>> ELSE <<>>)
              \o <<EndMsg(a)>>
         /\ \A b \in AgentIds \ {a} :
              /\ bufGet(buffers', b) = bufGet(buffers, b)
              /\ (\E i \in 1..Len(buffers') : buffers'[i].agentId = b)
                 <=> (\E i \in 1..Len(buffers) : buffers[i].agentId = b)]_vars

\* sophi's stream ended with a token buffered while keith's tokens wait
C30_Witness ==
  /\ posted = <<TokenMsg("sophi", <<"Hello ">>), EndMsg("sophi")>>
  /\ bufGet(buffers, "keith") = <<"world">>
  /\ bufGet(buffers, "sophi") = <<>>
  /\ timer

\* the calls since dispose was last called on the batcher
AfterDispose ==
  LET Mark(e) == e.kind = "dispose" IN After(added, Mark)

\* s ends with t
IsSuffix(t, s) ==
  Len(t) <= Len(s) /\ SubSeq(s, Len(s) - Len(t) + 1, Len(s)) = t

\* the messages that this step posts
NewMsgs == SubSeq(posted', Len(posted) + 1, Len(posted'))

\* C31: dispose leaves no timeout set and no buffer entry, and whatever is
\* posted later holds only tokens that were added after dispose.
C31_DisposeDropsTokens ==
  /\ [][TokenBatcher_dispose => ~timer' /\ buffers' = <<>> /\ posted' = posted]_vars
  /\ [][\A i \in 1..Len(NewMsgs) :
          NewMsgs[i].type = "streamToken"
          => IsSuffix(NewMsgs[i].content,
                      TokensOf(AfterDispose, NewMsgs[i].agentId))]_vars

\* a token was added, the batcher disposed, another token added and flushed:
\* only the second was posted
C31_Witness ==
  /\ Len(added) = 4
  /\ added[1].kind = "token" /\ added[1].token = "Hello "
  /\ added[2].kind = "dispose"
  /\ added[3].kind = "token" /\ added[3].agentId = added[1].agentId
  /\ added[4].kind = "flush"
  /\ posted = <<TokenMsg(added[1].agentId, <<"world">>)>>

\* the contents of the streamToken messages for agent a among msgs, joined
RECURSIVE PostedFor(_, _)
PostedFor(msgs, a) ==
  IF msgs = <<>> THEN <<>>
  ELSE LET m == Head(msgs)
       IN  (IF m.type = "streamToken" /\ m.agentId = a THEN m.content ELSE <<>>)
           \o PostedFor(Tail(msgs), a)

NeverDisposed == \A i \in 1..Len(added) : added[i].kind # "dispose"

\* C39: as long as dispose was not called, what was posted for an agent
\* followed by what its buffer holds is what was added for it, in order;
\* a buffer that holds something has the timeout set, and the timeout
\* leaves every buffer empty; and a streamToken message is posted for an
\* agent only if a token was added for it since its last endStream.
C39_EachTokenOnce ==
  /\ [](NeverDisposed =>
         \A a \in AgentIds :
           /\ PostedFor(posted, a) \o bufGet(buffers, a) = TokensOf(added, a)
           /\ bufGet(buffers, a) # <<>> => timer)
  /\ [][flush => buffers' = <<>>]_vars
  /\ [][\A a \in AgentIds :
          NewTokenMsgs(a) # <<>> => TokensOf(SinceEnd(a), a) # <<>>]_vars

\* a token was posted by endStream and a later one by the timeout
C39_Witness ==
  /\ NeverDisposed
  /\ posted = <<TokenMsg("keith", <<"Hello ">>), EndMsg("keith"),
                TokenMsg("keith", <<"world">>)>>
  /\ buffers = <<>>

\* ---------------------------------------------------------------------------
\* C32  Under every interleaving of readFile, stat, remote rewrites and change
\* notifications for /a/b.txt, readFile never returns from the cache bytes that
\* are older than the remote version whose mtime the stat cache holds.  Under
\* SpecStale version 1 of the file holds "x" and every later version "yy".
BytesOfVersion(ver) == IF ver = 1 THEN "x" ELSE "yy"

ContentFromCache(c) ==
  readFile(c, UriB) /\ contentValid(fileCache, statCache, UriB)

C32_CachedBytesNotOlder ==
  [][\A c \in CallIds :
       ContentFromCache(c) /\ fileCache[UriB].content = "x"
         => BytesOfVersion(statCache[UriB].stat.mtime) = "x"]_vars

\* ---------------------------------------------------------------------------
\* C33  A stat cache entry never holds a remote answer that was requested before
\* the most recent invalidation of its path: a stat call that was in flight
\* when a notification invalidated /a/b.txt does not store its answer.  Every
\* invalidation schedules an event for the path, so the events scheduled since
\* the call began tell whether the path was invalidated in between.
InvalidatedSince(call) ==
  \E i \in (call.epoch + 1)..Len(schedLog) : schedLog[i].ev.uri = call.uri

C33_NoRepopulation ==
  [][\A c \in CallIds :
       stat_resume(c) /\ InvalidatedSince(calls[c])
         => ~MapHas(statCache', calls[c].uri)]_vars

\* ---------------------------------------------------------------------------
\* C34  After a write conflict on a path was resolved as discard, and until the
\* client has read the path again, the remote accepts no writeFile of the path
\* from this client that was sent without a version precondition.
Discarded(uri) == MapHas(lastRW, uri) /\ ~lastRW[uri].live

AcceptedStep(c) ==
  /\ calls[c].op = "writeFile" /\ calls[c].pc = "sent"
  /\ calls'[c].pc = "replied" /\ calls'[c].resp.status = "ok"

C34_CheckedWriteAfterDiscard ==
  [][\A c \in CallIds :
       AcceptedStep(c) /\ Discarded(calls[c].uri)
         => calls[c].sends[Len(calls[c].sends)].ifMatch # NoTag]_vars

\* ---------------------------------------------------------------------------
\* C35  In every state between unmountProject and the next mountProject the
\* four caches are empty, also when calls that were in flight at the unmount
\* complete afterwards.
Unmounted == currentProjectId = "" /\ mounts > 0

C35_CachesEmptyWhileUnmounted ==
  Unmounted => /\ statCache = EmptyMap
               /\ dirCache = EmptyMap
               /\ fileCache = EmptyMap
               /\ etagCache = EmptyMap

\* ---------------------------------------------------------------------------
\* C36  A writeFile (other than a conflict), delete, rename or createDirectory
\* whose remote call fails leaves the four caches and the buffer of pending
\* events as they were and schedules no event.
Mutations == {"writeFile", "delete", "rename", "createDirectory"}

FailedStep(c) ==
  /\ calls[c].op \in Mutations /\ calls[c].pc = "replied"
  /\ calls[c].resp.status \notin {"ok", "409"}
  /\ calls'[c].pc = "idle"

NewlyScheduled ==
  {schedLog'[i].ev : i \in (Len(schedLog) + 1)..Len(schedLog')}

C37_NoEntryOfDeleted ==
  [][\A ev \in NewlyScheduled :
       ev.type = "Deleted" =>
         /\ ~MapHas(statCache', ev.uri)
         /\ ~MapHas(fileCache', ev.uri)
         /\ ~MapHas(dirCache', ev.uri)
         /\ ~MapHas(etagCache', ev.uri)]_vars

\* ---------------------------------------------------------------------------
\* C40  When the token endpoint answers slow_down, pollForToken doubles its
\* polling interval, up to 30 s; authorization_pending leaves the interval as
\* it is; the call returns null when the deadline has passed, on cancellation,
\* and when the endpoint answers expired_token or access_denied.
Answered(a) == poll.pc = "polling" /\ poll'.pc # "polling" /\ poll'.answer = a

Doubled(ms) == IF ms * 2 < 30000 THEN ms * 2 ELSE 30000

ReturnsNull == poll'.pc = "done" /\ poll'.result = "null"

C40_PollingInterval ==
  [][/\ Answered("slow_down") => poll'.pollInterval = Doubled(poll.pollInterval)
     /\ Answered("authorization_pending") => poll'.pollInterval = poll.pollInterval
     /\ Answered("expired_token") \/ Answered("access_denied") => ReturnsNull
     /\ poll'.pc = "sleeping" /\ poll.pc # "sleeping" =>
          now < poll'.deadline /\ ~poll'.isCancellationRequested
     /\ sleep_resume /\ poll.isCancellationRequested => ReturnsNull]_vars

\* ---------------------------------------------------------------------------
\* C38  Under every interleaving of device-flow sign-in, token restore,
\* cross-window secret changes, removeSession and the periodic health check,
\* AuthManager reports the state "connected" only while the API client holds
\* a token.
C38_ConnectedHoldsToken == authState = "connected" => clientToken

====
